---- MODULE Spec2Model ----
(***************************************************************************)
(* Model of the query orchestration core of the Discord bot:               *)
(*   - the provider availability store and the AI router (cogs/ai.py),     *)
(*   - the fan-out engine handle_query_with_status (cogs/automation.py).   *)
(* Python strings are modelled as sequences of words, so that startswith,  *)
(* substring tests, lower() and concatenation are computed, not assumed.   *)
(* Python values that the code inspects with isinstance are tagged         *)
(* records [t |-> "str" | "list" | "none", v |-> <sequence>].              *)
(***************************************************************************)
EXTENDS Integers, Sequences, FiniteSets, TLC

VARIABLES
    rec,            \* ai_availability.json, entry "cohere"
    now,            \* wall clock, seconds
    nticks,         \* number of clock advances so far
    pc,             \* per analyze call: "idle" | "inflight" (awaiting the provider)
    lastEnv,        \* what the analyze call that ended last gave its caller
    ret,            \* outcome of the last direct is_ai_available() call
    rlAt,           \* time of the last rate-limit mark written by analyze
    \* one run of handle_query_with_status
    rpc,            \* where the run stands
    nlocs,          \* number of locations the extractor returned
    li,             \* index of the location being processed
    satellite_results,
    mi,             \* index of the module being processed
    results,
    provider_results,
    aggregated,
    report,
    events,         \* status pushes, module calls and sink calls, in order
    raisedBy,       \* the call whose exception left the run
    \* one ensemble call of ai_orchestrate
    ens,
    \* the bulk source generator: the clock, call_timestamps, rate_limit_lock
    \* and the worker threads
    gen,
    \* one direct call of a function on its own: ask_cohere,
    \* normalize_ai_output, research.analyze, footprint.analyze,
    \* summarize_osint_footprint, ask_any_llm
    fn

aiVars == <<rec, now, nticks, pc, lastEnv, ret, rlAt>>

runVars == <<rpc, nlocs, li, satellite_results, mi, results, provider_results,
             aggregated, report, events, raisedBy>>

vars == <<aiVars, runVars, ens, gen, fn>>

\* ------------------------------------------------------------------ bounds
MaxTicks == 2
MaxUsed == 2
NumCalls == 2

Calls == 1..NumCalls

\* --------------------------------------------------------- python values
None == [t |-> "none", v |-> <<>>]
Str(s) == [t |-> "str", v |-> s]
List(l) == [t |-> "list", v |-> l]
Truthy(x) == x.t # "none" /\ x.v # <<>>

Min(a, b) == IF a <= b THEN a ELSE b
Max(a, b) == IF a >= b THEN a ELSE b

\* str.lower(), word by word
LowerWord(w) ==
    CASE w = "Error" -> "error"
      [] w = "Cohere" -> "cohere"
      [] w = "Rate" -> "rate"
      [] w = "Limit" -> "limit"
      [] w = "IP" -> "ip"
      [] OTHER -> w
Lower(s) == [i \in DOMAIN s |-> LowerWord(s[i])]

\* str.startswith(prefix)
StartsWith(s, prefix) ==
    /\ Len(s) >= Len(prefix)
    /\ SubSeq(s, 1, Len(prefix)) = prefix

\* needle in s
Contains(s, needle) ==
    \E i \in 0..(Len(s) - Len(needle)) : SubSeq(s, i + 1, i + Len(needle)) = needle

IsBlank(w) == w = " "

\* str.strip(): drop leading and trailing whitespace
RECURSIVE LStrip(_)
LStrip(s) == IF s # <<>> /\ IsBlank(Head(s)) THEN LStrip(Tail(s)) ELSE s
RECURSIVE RStrip(_)
RStrip(s) == IF s # <<>> /\ IsBlank(s[Len(s)]) THEN RStrip(SubSeq(s, 1, Len(s) - 1)) ELSE s
Strip(s) == RStrip(LStrip(s))

\* ------------------------------------------------- availability store
NoTime == -1
MinuteWindow == 60
DailyWindow == 86400

FreshRecord == [available |-> TRUE, last_limit |-> NoTime, limit_type |-> "none", used |-> 0]

\* mark_ai_unavailable(limit_type) applied to the stored record at time t
MarkUnavailableOn(r, lt, t) ==
    [r EXCEPT !.available = FALSE, !.last_limit = t, !.limit_type = lt]

\* the slip of writing a fresh record, which drops the usage counter
MarkAvailableOnFresh(r) ==
    [available |-> TRUE, last_limit |-> NoTime, limit_type |-> "none", used |-> 0]

\* the slip of leaving the limit type in place
MarkAvailableOnKeepsType(r) == [r EXCEPT !.available = TRUE, !.last_limit = NoTime]

\* mark_ai_available() applied to the stored record
MarkAvailableOn(r) ==
    [r EXCEPT !.available = TRUE, !.last_limit = NoTime, !.limit_type = "none"]

\* increment_ai_usage() applied to the stored record
IncrementUsageOn(r) == [r EXCEPT !.used = r.used + 1]

\* the >= slip: a limit exactly one window old already counts as expired
AutoRecoversInclusive(r, t) ==
    /\ r.last_limit # NoTime
    /\ \/ r.limit_type = "minute" /\ (t - r.last_limit) >= MinuteWindow
       \/ r.limit_type = "daily" /\ (t - r.last_limit) >= DailyWindow

\* the auto-recovery test of is_ai_available
AutoRecovers(r, t) ==
    /\ r.last_limit # NoTime
    /\ \/ r.limit_type = "minute" /\ (t - r.last_limit) > MinuteWindow
       \/ r.limit_type = "daily" /\ (t - r.last_limit) > DailyWindow

\* is_ai_available(): the value returned, the record left in the store and
\* whether the call took one of the auto-recovery returns (lines 73, 77)
IsAiAvailableOn(r, t) ==
    IF ~r.available
    THEN IF AutoRecovers(r, t)
         THEN [ret |-> TRUE, rec |-> MarkAvailableOn(r), recovered |-> TRUE]
         ELSE [ret |-> FALSE, rec |-> r, recovered |-> FALSE]
    ELSE [ret |-> TRUE, rec |-> r, recovered |-> FALSE]

\* ------------------------------------------------------------ AI router
\* what cohere_client.chat can do: return a response text or raise
ChatOutcomes ==
    { [kind |-> "text", v |-> <<"foo">>],
      [kind |-> "text", v |-> <<>>],
      [kind |-> "text", v |-> <<" ">>],
      [kind |-> "text", v |-> <<"syntax", "error">>],
      [kind |-> "raise", v |-> <<"429">>],
      [kind |-> "raise", v |-> <<"Rate", "Limit", "exceeded">>],
      [kind |-> "raise", v |-> <<"timeout">>] }

SentinelPrefix == <<"Error", "during", "Cohere", "completion:">>
NoAnswerText == <<"No", "answer", "returned.">>
UnavailableExc == <<"Cohere", "AI", "provider", "is", "currently", "unavailable",
                    "due", "to", "rate", "limiting", "or", "error.">>
UnavailableText == <<"Cohere", "AI", "provider", "is", "unavailable",
                     "due", "to", "rate", "limiting", "or", "error.">>
ProviderUnavailable == <<"Provider", "unavailable.">>
NoUsableResult == <<"Provider", "returned", "no", "usable", "result.">>
FailedPrefix == <<"Cohere", "AI", "provider", "failed", "or", "is", "rate-limited:">>
NotRecognized == <<"AI", "output", "was", "not", "recognized">>

\* the slip of handing back str(e) without the sentinel prefix
SyncCallBare(o) ==
    IF o.kind = "text"
    THEN IF o.v # <<>> THEN Strip(o.v) ELSE NoAnswerText
    ELSE o.v

\* sync_call inside ask_cohere: always a string
SyncCall(o) ==
    IF o.kind = "text"
    THEN IF o.v # <<>> THEN Strip(o.v) ELSE NoAnswerText
    ELSE SentinelPrefix \o o.v

EmptyOutput ==
    [text |-> Str(<<>>), images |-> List(<<>>), audio |-> List(<<>>),
     video |-> List(<<>>), links |-> List(<<>>), maps |-> List(<<>>),
     files |-> List(<<>>), error |-> None]

ListKeys == {"images", "audio", "video", "links", "maps", "files"}

IntVal(n) == [t |-> "int", v |-> <<n>>]
Dict(d) == [t |-> "dict", v |-> d]

\* repr of a list of strings, as one word
RECURSIVE ReprItems(_)
ReprItems(l) ==
    IF l = <<>> THEN ""
    ELSE "'" \o Head(l) \o "'" \o (IF Len(l) > 1 THEN ", " ELSE "") \o ReprItems(Tail(l))

\* str(x)
PyStr(x) ==
    CASE x.t = "str" -> x.v
      [] x.t = "list" -> <<"[" \o ReprItems(x.v) \o "]">>
      [] x.t = "int" -> <<ToString(x.v[1])>>
      [] OTHER -> <<"None">>

\* the slip of copying a known key whatever its type
NormalizeAiOutputUnchecked(raw) ==
    IF raw.t = "str"
    THEN IF StartsWith(Lower(raw.v), Lower(SentinelPrefix))
         THEN [EmptyOutput EXCEPT !.error = raw]
         ELSE [EmptyOutput EXCEPT !.text = raw]
    ELSE IF raw.t = "dict"
    THEN [k \in DOMAIN EmptyOutput |->
            IF k = "error"
            THEN IF "error" \in DOMAIN raw.v /\ Truthy(raw.v["error"])
                 THEN Str(PyStr(raw.v["error"])) ELSE None
            ELSE IF k \in DOMAIN raw.v THEN raw.v[k] ELSE EmptyOutput[k]]
    ELSE [EmptyOutput EXCEPT !.error = Str(NotRecognized)]

\* normalize_ai_output(raw_output); raw is a tagged python value
\* (t = "dict": v is a function from keys to tagged values)
NormalizeAiOutput(raw) ==
    IF raw.t = "str"
    THEN IF StartsWith(Lower(raw.v), Lower(SentinelPrefix))
         THEN [EmptyOutput EXCEPT !.error = raw]
         ELSE [EmptyOutput EXCEPT !.text = raw]
    ELSE IF raw.t = "dict"
    THEN [k \in DOMAIN EmptyOutput |->
            IF k = "text"
            THEN IF "text" \in DOMAIN raw.v /\ raw.v["text"].t = "str"
                 THEN raw.v["text"] ELSE EmptyOutput.text
            ELSE IF k \in ListKeys
            THEN IF k \in DOMAIN raw.v /\ raw.v[k].t = "list"
                 THEN raw.v[k] ELSE EmptyOutput[k]
            ELSE IF "error" \in DOMAIN raw.v /\ Truthy(raw.v["error"])
                 THEN Str(PyStr(raw.v["error"])) ELSE None]
    ELSE [EmptyOutput EXCEPT !.error = Str(NotRecognized)]

\* line 166 of analyze: is the normalized output a usable answer
Usable(norm) ==
    /\ Truthy(norm.text)
    /\ ~Truthy(norm.error)
    /\ ~Contains(Lower(norm.text.v), <<"error">>)

\* the slip of testing "rate limit" without lower()
IsRateLimitCaseSensitive(e) ==
    \/ Contains(e, <<"429">>)
    \/ Contains(e, <<"rate", "limit">>)

\* line 184 of analyze: does the exception text signal a rate limit
IsRateLimit(e) ==
    \/ Contains(e, <<"429">>)
    \/ Contains(Lower(e), <<"rate", "limit">>)

FailureLimitType(e) == IF IsRateLimit(e) THEN "minute" ELSE "hard"

ConfidenceSuccess == 8   \* 0.8, in tenths
ConfidenceNone == 0

Envelope(output, confidence, provider, err) ==
    [result |-> output, confidence |-> confidence,
     details |-> [provider |-> provider, error |-> err], source |-> "ai"]

NoEnvelope == Envelope(EmptyOutput, ConfidenceNone, None, None)

\* stands for "analyze raised instead of returning an envelope"
Raised == [NoEnvelope EXCEPT !.source = "raised"]

\* the fail-fast branch of analyze (lines 157-160)
UnavailableEnvelope ==
    Envelope([EmptyOutput EXCEPT !.text = Str(UnavailableText),
                                 !.error = Str(ProviderUnavailable)],
             ConfidenceNone, None, None)

\* the success branch of analyze (lines 167-174): copy the truthy fields
SuccessEnvelope(norm) ==
    Envelope([k \in DOMAIN EmptyOutput |->
                 IF Truthy(norm[k]) THEN norm[k] ELSE EmptyOutput[k]],
             ConfidenceSuccess, Str(<<"cohere">>), None)

\* the except branch of analyze (lines 177-188)
FailureEnvelope(e) ==
    Envelope([EmptyOutput EXCEPT !.text = Str(FailedPrefix \o e),
                                 !.error = Str(e)],
             ConfidenceNone, None, Str(e))

\* the exception raised at line 176 for an unusable answer
UnusableExc(norm) == IF Truthy(norm.error) THEN norm.error.v ELSE NoUsableResult

\* what analyze does with the string ask_cohere returned: the envelope and
\* the record it leaves in the store
AnalyzeAnswer(r, t, answer) ==
    LET norm == NormalizeAiOutput(Str(answer)) IN
    IF Usable(norm)
    THEN [env |-> SuccessEnvelope(norm),
          rec |-> IncrementUsageOn(MarkAvailableOn(r)),
          limited |-> FALSE]
    ELSE LET e == UnusableExc(norm) IN
         [env |-> FailureEnvelope(e),
          rec |-> MarkUnavailableOn(r, FailureLimitType(e), t),
          limited |-> IsRateLimit(e)]

\* log_conversation, log_provider_decision, log_analytics: return or raise
SinkOutcomes == {"ok", "raise"}

\* clock advances that reach both sides of the minute and the daily window
TickSteps == {1, 60, 86400}
\* analyze only ever writes "minute" and "hard": the minute window suffices
ShortTickSteps == {1, 60}
LimitTypes == {"minute", "daily", "hard"}
ProviderNames == {"cohere", "openai"}

\* ----------------------------------------------------------------- Init
InitAI ==
    /\ rec = FreshRecord
    /\ now = 0
    /\ nticks = 0
    /\ pc = [p \in Calls |-> "idle"]
    /\ lastEnv = NoEnvelope
    /\ ret = [val |-> TRUE, recovered |-> FALSE]
    /\ rlAt = NoTime

\* time passes
Tick(d) ==
    /\ UNCHANGED <<runVars, ens, gen, fn>>
    /\ nticks < MaxTicks
    /\ now' = now + d
    /\ nticks' = nticks + 1
    /\ UNCHANGED <<rec, pc, lastEnv, ret, rlAt>>

\* ------------------------------------------- direct store operations
\* reset_ai_availability() (lines 243-247): the record it writes
ResetOn(r) == FreshRecord

IsAiAvailable ==
    /\ UNCHANGED <<runVars, ens, gen, fn>>
    /\ LET a == IsAiAvailableOn(rec, now) IN
         /\ ret' = [val |-> a.ret, recovered |-> a.recovered]
         /\ rec' = a.rec
    /\ UNCHANGED <<now, nticks, pc, lastEnv, rlAt>>

MarkAiUnavailable(lt) ==
    /\ UNCHANGED <<runVars, ens, gen, fn>>
    /\ rec' = MarkUnavailableOn(rec, lt, now)
    /\ rlAt' = NoTime
    /\ UNCHANGED <<now, nticks, pc, lastEnv, ret>>

MarkAiAvailable ==
    /\ UNCHANGED <<runVars, ens, gen, fn>>
    /\ rec' = MarkAvailableOn(rec)
    /\ rlAt' = NoTime
    /\ UNCHANGED <<now, nticks, pc, lastEnv, ret>>

IncrementAiUsage ==
    /\ UNCHANGED <<runVars, ens, gen, fn>>
    /\ rec.used < MaxUsed
    /\ rec' = IncrementUsageOn(rec)
    /\ UNCHANGED <<now, nticks, pc, lastEnv, ret, rlAt>>

ResetAiUsage ==
    /\ UNCHANGED <<runVars, ens, gen, fn>>
    /\ rec' = [rec EXCEPT !.used = 0]
    /\ UNCHANGED <<now, nticks, pc, lastEnv, ret, rlAt>>

ResetAiAvailability ==
    /\ UNCHANGED <<runVars, ens, gen, fn>>
    /\ rec' = ResetOn(rec)
    /\ rlAt' = NoTime
    /\ UNCHANGED <<now, nticks, pc, lastEnv, ret>>

ResetAiProvider(provider) ==
    /\ UNCHANGED <<runVars, ens, gen, fn>>
    /\ IF provider = "cohere"
       THEN rec' = FreshRecord /\ rlAt' = NoTime
       ELSE UNCHANGED <<rec, rlAt>>
    /\ UNCHANGED <<now, nticks, pc, lastEnv, ret>>

ResetAllAiProviders ==
    /\ UNCHANGED <<runVars, ens, gen, fn>>
    /\ rec' = FreshRecord
    /\ rlAt' = NoTime
    /\ UNCHANGED <<now, nticks, pc, lastEnv, ret>>

\* ------------------------------------------------------------- analyze
\* what the caller of analyze gets once log_conversation (line 191) has run
Returned(e, sink) == IF sink = "ok" THEN e ELSE Raised

\* analyze up to its first suspension point: the availability check of
\* line 157, then (inside ask_cohere) the check of line 130 and the hand-over
\* of the provider call to the executor; sink is what log_conversation does
\* when the call ends without suspending
AnalyzeStartWith(p, sink) ==
    /\ UNCHANGED <<runVars, ens, gen, fn>>
    /\ pc[p] = "idle"
    /\ UNCHANGED <<now, nticks, ret>>
    /\ LET first == IsAiAvailableOn(rec, now) IN
       IF ~first.ret
       THEN /\ rec' = first.rec
            /\ lastEnv' = Returned(UnavailableEnvelope, sink)
            /\ UNCHANGED <<pc, rlAt>>
       ELSE LET second == IsAiAvailableOn(first.rec, now) IN
            IF ~second.ret
            THEN /\ rec' = MarkUnavailableOn(second.rec, FailureLimitType(UnavailableExc), now)
                 /\ rlAt' = IF IsRateLimit(UnavailableExc) THEN now ELSE rlAt
                 /\ lastEnv' = Returned(FailureEnvelope(UnavailableExc), sink)
                 /\ UNCHANGED pc
            ELSE /\ rec.used < MaxUsed
                 /\ sink = "ok"
                 /\ rec' = second.rec
                 /\ pc' = [pc EXCEPT ![p] = "inflight"]
                 /\ UNCHANGED <<lastEnv, rlAt>>

AnalyzeStart(p) == \E sink \in SinkOutcomes : AnalyzeStartWith(p, sink)

\* analyze resumed with the provider's outcome o: lines 164-208
AnalyzeFinishWith(p, o, sink) ==
    /\ UNCHANGED <<runVars, ens, gen, fn>>
    /\ pc[p] = "inflight"
    /\ pc' = [pc EXCEPT ![p] = "idle"]
    /\ UNCHANGED <<now, nticks, ret>>
    /\ LET a == AnalyzeAnswer(rec, now, SyncCall(o)) IN
         /\ rec' = a.rec
         /\ rlAt' = IF a.limited THEN now ELSE rlAt
         /\ lastEnv' = Returned(a.env, sink)

AnalyzeFinish(p) ==
    \E o \in ChatOutcomes, sink \in SinkOutcomes : AnalyzeFinishWith(p, o, sink)

\* ------------------------------------------- recovery after a reset
\* test.py, lines 56-58: reset_ai_availability(), then analyze up to its
\* first suspension point, with nothing running in between
RecoveryStartWith(p, sink) ==
    /\ UNCHANGED <<runVars, ens, gen, fn>>
    /\ pc[p] = "idle"
    /\ UNCHANGED <<now, nticks, ret>>
    /\ LET first == IsAiAvailableOn(ResetOn(rec), now) IN
       IF ~first.ret
       THEN /\ rec' = first.rec
            /\ lastEnv' = Returned(UnavailableEnvelope, sink)
            /\ rlAt' = NoTime
            /\ UNCHANGED pc
       ELSE LET second == IsAiAvailableOn(first.rec, now) IN
            IF ~second.ret
            THEN /\ rec' = MarkUnavailableOn(second.rec, FailureLimitType(UnavailableExc), now)
                 /\ rlAt' = IF IsRateLimit(UnavailableExc) THEN now ELSE NoTime
                 /\ lastEnv' = Returned(FailureEnvelope(UnavailableExc), sink)
                 /\ UNCHANGED pc
            ELSE /\ sink = "ok"
                 /\ rec' = second.rec
                 /\ rlAt' = NoTime
                 /\ pc' = [pc EXCEPT ![p] = "recovering"]
                 /\ UNCHANGED lastEnv

RecoveryStart(p) == \E sink \in SinkOutcomes : RecoveryStartWith(p, sink)

\* test.py, line 58: that analyze call resumed with the provider's outcome o
RecoveryFinishWith(p, o, sink) ==
    /\ UNCHANGED <<runVars, ens, gen, fn>>
    /\ pc[p] = "recovering"
    /\ pc' = [pc EXCEPT ![p] = "idle"]
    /\ UNCHANGED <<now, nticks, ret>>
    /\ LET a == AnalyzeAnswer(rec, now, SyncCall(o)) IN
         /\ rec' = a.rec
         /\ rlAt' = IF a.limited THEN now ELSE rlAt
         /\ lastEnv' = Returned(a.env, sink)

RecoveryFinish(p) ==
    \E o \in ChatOutcomes, sink \in SinkOutcomes : RecoveryFinishWith(p, o, sink)

\* analyze calls that fail and mark the provider, next to resets followed by
\* an analyze call
NextRecovery ==
    \/ \E d \in ShortTickSteps : Tick(d)
    \/ IsAiAvailable
    \/ \E p \in Calls : AnalyzeStart(p)
    \/ \E p \in Calls : AnalyzeFinish(p)
    \/ \E p \in Calls : RecoveryStart(p)
    \/ \E p \in Calls : RecoveryFinish(p)

\* the store on its own: every operation of cogs/ai.py on the record
NextStore ==
    \/ \E d \in TickSteps : Tick(d)
    \/ IsAiAvailable
    \/ \E lt \in LimitTypes : MarkAiUnavailable(lt)
    \/ MarkAiAvailable
    \/ IncrementAiUsage
    \/ ResetAiUsage
    \/ ResetAiAvailability
    \/ \E provider \in ProviderNames : ResetAiProvider(provider)
    \/ ResetAllAiProviders


\* every operation on the record, next to the analyze calls of one caller
\* (analyze calls against each other are NextAI's)
NextRecord ==
    \/ \E d \in TickSteps : Tick(d)
    \/ IsAiAvailable
    \/ \E lt \in LimitTypes : MarkAiUnavailable(lt)
    \/ MarkAiAvailable
    \/ IncrementAiUsage
    \/ ResetAiUsage
    \/ ResetAiAvailability
    \/ AnalyzeStart(1)
    \/ AnalyzeFinish(1)

\* concurrent analyze calls (one event loop, suspended at the provider call)
\* next to availability checks and explicit resets
NextAI ==
    \/ \E d \in ShortTickSteps : Tick(d)
    \/ IsAiAvailable
    \/ ResetAiAvailability
    \/ \E provider \in ProviderNames : ResetAiProvider(provider)
    \/ ResetAllAiProviders
    \/ \E p \in Calls : AnalyzeStart(p)
    \/ \E p \in Calls : AnalyzeFinish(p)


\* ======================================================= fan-out engine
\* MODULES (automation.py, lines 29-36), in registry order
MODULES == <<"AI Analysis", "OSINT", "Footprint", "Research", "Timeline", "Verify">>
Total == Len(MODULES)

AGG_KEYS == <<"links", "images", "texts", "locations", "audio", "text", "error">>

\* max_locations handed to extract_and_geocode_locations
MaxLocations == 3

\* an envelope as every analyze returns it (the timestamp is left out)
Env(source, output, confidence) ==
    [Envelope(output, confidence, None, None) EXCEPT !.source = source]

\* cogs.satellite_verify.analyze is imported by automation.py but is not
\* part of the sources: an analyze conforming to the envelope contract
SatelliteEnvelope(i) ==
    Env("satellite_verify",
        [EmptyOutput EXCEPT !.text = Str(<<"satellite", "events">>),
                            !.images = List(<<"sat.png">>)],
        5)

ModuleError == <<"boom">>

\* what cogs.ai.analyze can hand to the fan-out engine
AiEnvelopes ==
    { SuccessEnvelope(NormalizeAiOutput(Str(<<"foo">>))), UnavailableEnvelope }

\* cogs.osint.analyze: the success return and the except branch
OsintEnvelopes ==
    { Env("osint", [EmptyOutput EXCEPT !.text = Str(<<"check_a:", "Positive", "u1">>),
                                       !.links = List(<<"u1">>)], 7),
      Env("osint", [EmptyOutput EXCEPT
                       !.text = Str(<<"Internal", "error", "in", "OSINT", "module:">> \o ModuleError),
                       !.error = Str(ModuleError)], 0) }

\* cogs.footprint.analyze with the options of an orchestrated run
\* ({session_id, user_id}, bot.py line 119): no "type"
FootprintEnvelopes ==
    { Env("footprint",
          [EmptyOutput EXCEPT !.error = Str(<<"Invalid", "or", "missing", "type", "in", "options.">>)],
          0) }

\* cogs.research.analyze: the AI router's text, or its error
ResearchEnvelopes ==
    { Env("research", [EmptyOutput EXCEPT !.text = Str(<<"foo">>)], ConfidenceSuccess),
      Env("research", [EmptyOutput EXCEPT !.error = Str(ProviderUnavailable)], 0) }

\* cogs.timeline.analyze in its default mode "image"
TimelineEnvelopes ==
    { Env("timeline", [EmptyOutput EXCEPT !.text = Str(<<"summary">>),
                                          !.images = List(<<"sat.png">>)], 5),
      Env("timeline", [EmptyOutput EXCEPT !.text = Str(<<"Error:">> \o ModuleError),
                                          !.error = Str(ModuleError)], 0) }

\* the text of an OSError raised when ai_availability.json cannot be read
\* or written
IoError == <<"Errno", "5">>

\* max_results of verify.analyze when the options do not give one (line 150)
DefaultMaxResults == 5

\* line 203, in tenths: min(1.0, len(search_results) / max_results)
VerifyConfidence(n) == Min(10, (10 * n) \div DefaultMaxResults)

\* cogs.verify.analyze (lines 128-255) for the urls the search returned and
\* for what the two ai_analyze calls of lines 178-179 did ("ok" | "raise")
VerifyAnalyze(urls, ai) ==
    IF urls = <<>>
    THEN Env("verify", [EmptyOutput EXCEPT
                           !.error = Str(<<"No", "relevant", "sources", "found",
                                           "to", "verify", "this", "claim.">>)], 0)
    ELSE IF ai = "ok"
    THEN Env("verify", [EmptyOutput EXCEPT !.text = Str(<<"Summary:", "foo", "Facts:", "foo">>),
                                           !.links = List(urls)],
             VerifyConfidence(Len(urls)))
    ELSE Env("verify", [EmptyOutput EXCEPT
                           !.text = Str(<<"Summary:", "Summary", "failed:">> \o IoError
                                        \o <<"Facts:", "Fact", "extraction", "failed.">>),
                           !.links = List(urls),
                           !.error = Str(IoError)],
             VerifyConfidence(Len(urls)))

\* cogs.verify.analyze: sources found, or none, or found with the summary
\* failing
VerifyEnvelopes ==
    { VerifyAnalyze(<<"u1", "u2">>, "ok"),
      VerifyAnalyze(<<>>, "ok"),
      VerifyAnalyze(<<"u1", "u2">>, "raise") }

ModuleEnvelopes(i) ==
    CASE i = 1 -> AiEnvelopes
      [] i = 2 -> OsintEnvelopes
      [] i = 3 -> FootprintEnvelopes
      [] i = 4 -> ResearchEnvelopes
      [] i = 5 -> TimelineEnvelopes
      [] i = 6 -> VerifyEnvelopes

\* the modules whose analyze can raise: those that call a logging sink
\* outside a try block or inside an except handler (ai.py line 191,
\* osint.py line 195, timeline.py line 114, verify.py line 237);
\* footprint returns before any sink call and research guards everything
RaisingModules == {1, 2, 5, 6}

\* the "source" each module writes into its envelopes
ModuleSource == <<"ai", "osint", "footprint", "research", "timeline", "verify">>

\* error_result of lines 150-156
SyntheticEnvelope(name, e) ==
    [result |-> [k \in {AGG_KEYS[j] : j \in DOMAIN AGG_KEYS} |-> List(<<>>)],
     confidence |-> 0,
     details |-> [provider |-> None, error |-> Str(e)],
     source |-> name]

\* the provider_results records of lines 129-134 and 158-163 (the latency
\* field, a wall-clock measure, is left out)
SuccessRecord(name, res) ==
    [module |-> name, result |-> res, status |-> "success"]

ErrorRecord(name, e) ==
    [module |-> name, error |-> Str(e), status |-> "error"]

\* --------------------------------------------------------- aggregation
\* one envelope's contribution to aggregated[dtype] (lines 182-195)
\* the elements of a list are written as tokens: a token of StructuredTokens
\* stands for a dict (a structured location or map entry), any other token
\* for the one-word string it spells
StructuredTokens == {"{place}"}
Elem(x) == IF x \in StructuredTokens THEN [t |-> "dict", v |-> <<x>>] ELSE Str(<<x>>)
Elems(l) == [j \in DOMAIN l |-> Elem(l[j])]

ContributionListsOnly(res, dtype) ==
    IF dtype \notin DOMAIN res.result THEN <<>>
    ELSE LET val == res.result[dtype] IN
         IF val.t = "list" THEN Elems(val.v) ELSE <<>>
Contribution(res, dtype) ==
    IF dtype \notin DOMAIN res.result THEN <<>>
    ELSE LET val == res.result[dtype] IN
         IF val.t = "list" THEN Elems(val.v)
         ELSE IF val.t = "str" /\ val.v # <<>> THEN <<val>>
         ELSE <<>>

RECURSIVE Gather(_, _)
Gather(rs, dtype) ==
    IF rs = <<>> THEN <<>>
    ELSE Contribution(Head(rs), dtype) \o Gather(Tail(rs), dtype)

Aggregate(rs) ==
    [dtype \in {AGG_KEYS[j] : j \in DOMAIN AGG_KEYS} |-> Gather(rs, dtype)]

\* line 180: each aggregation starts from a fresh mapping, whatever an
\* earlier aggregation (prev) produced
AggregateFromAccumulating(prev, rs) ==
    [dtype \in DOMAIN prev |-> prev[dtype] \o Gather(rs, dtype)]
AggregateFrom(prev, rs) == Aggregate(rs)

\* ---------------------------------------------------------- create_report
ReportCategories == <<"links", "images", "texts", "locations", "audio">>
SectionOrderAsStored == <<"links", "images", "texts", "locations", "audio">>
SectionOrder == <<"texts", "links", "images", "locations", "audio">>

\* lines 37-44: drop every occurrence after the first
DedupeNothing(items, seen) == items
RECURSIVE Dedupe(_, _)
Dedupe(items, seen) ==
    IF items = <<>> THEN <<>>
    ELSE IF Head(items) \in seen THEN Dedupe(Tail(items), seen)
    ELSE <<Head(items)>> \o Dedupe(Tail(items), seen \cup {Head(items)})

\* the slip of listing the scalar text field among the texts
ReportListsWithText(agg) ==
    [c \in {ReportCategories[j] : j \in DOMAIN ReportCategories} |->
        IF c \notin DOMAIN agg THEN <<>>
        ELSE IF c = "texts" /\ "text" \in DOMAIN agg THEN Dedupe(agg[c] \o agg["text"], {})
        ELSE Dedupe(agg[c], {})]

ReportLists(agg) ==
    [c \in {ReportCategories[j] : j \in DOMAIN ReportCategories} |->
        IF c \in DOMAIN agg THEN Dedupe(agg[c], {}) ELSE <<>>]

\* lines 48-62: one header and one line per item, for a non-empty section
Section(lists, c) ==
    IF lists[c] = <<>> THEN <<>>
    ELSE <<[kind |-> "header", cat |-> c, v |-> None]>>
         \o [j \in DOMAIN lists[c] |-> [kind |-> "item", cat |-> c, v |-> lists[c][j]]]

RECURSIVE Sections(_, _)
Sections(lists, order) ==
    IF order = <<>> THEN <<>>
    ELSE Section(lists, Head(order)) \o Sections(lists, Tail(order))

RECURSIVE SumLen(_, _)
SumLen(lists, order) ==
    IF order = <<>> THEN 0
    ELSE Len(lists[Head(order)]) + SumLen(lists, Tail(order))

\* line 41: "item not in seen" hashes the item; a dict is unhashable
Hashable(item) == item.t # "dict"

\* create_report raises TypeError: some item of a category is unhashable
ReportRaises(agg) ==
    \E j \in DOMAIN ReportCategories :
       /\ ReportCategories[j] \in DOMAIN agg
       /\ \E m \in DOMAIN agg[ReportCategories[j]] : ~Hashable(agg[ReportCategories[j]][m])

\* the report: its lines and the figures of the trailing summary line
CreateReport(rs, agg) ==
    LET lists == ReportLists(agg) IN
    [lines |-> Sections(lists, SectionOrder) \o <<[kind |-> "summary", cat |-> "", v |-> None]>>,
     items |-> SumLen(lists, ReportCategories),
     modules |-> Len(rs)]

NoReport == [lines |-> <<>>, items |-> 0, modules |-> 0]

\* ------------------------------------------------------------- events
Status(k, i) == [e |-> "status", k |-> k, i |-> i]
Invoke(i) == [e |-> "invoke", k |-> MODULES[i], i |-> i]
Finished(i) == [e |-> "finished", k |-> "returned", i |-> i]
Threw(i) == [e |-> "finished", k |-> "raised", i |-> i]
Log(k, i) == [e |-> "log", k |-> k, i |-> i]

Aggregation == [e |-> "aggregate", k |-> "", i |-> 0]

Occurs(a) == \E j \in DOMAIN events : events[j] = a

SinkError == <<"sink", "down">>

\* how many locations the extractor yields: a query that names no place, and
\* one that names as many as max_locations allows (line 86)
FoundCounts == {0, MaxLocations}

\* lines 56-75: five animated pushes, then the assumptions
PrologueEvents ==
    [j \in 1..5 |-> Status("dots", j)] \o <<Status("assumptions", 0)>>

\* lines 82-112: the status pushes around the location extraction
LocationEvents(n) ==
    <<Status("locating", 0)>>
    \o (IF n > 0 THEN <<Status("found", n)>> ELSE <<Status("nolocations", 0)>>)

\* lines 116-126: the running status, then the call
ModuleStartEventsSwapped(i) == <<Invoke(i), Status("running", i)>>
ModuleStartEvents(i) == <<Status("running", i), Invoke(i)>>

\* lines 204-225 when no sink raises
FinalEvents ==
    <<Status("complete", 0), Log("conversation", 0), Log("orchestration_complete", 0)>>

InitRun ==
    /\ rpc = "start"
    /\ nlocs = 0
    /\ li = 1
    /\ satellite_results = <<>>
    /\ mi = 1
    /\ results = <<>>
    /\ provider_results = <<>>
    /\ aggregated = Aggregate(<<>>)
    /\ report = NoReport
    /\ events = <<>>
    /\ raisedBy = "none"

RunStart ==
    /\ UNCHANGED <<aiVars, ens, gen, fn>>
    /\ rpc = "start"
    /\ events' = events \o PrologueEvents
    /\ rpc' = "locate"
    /\ UNCHANGED <<nlocs, li, satellite_results, mi, results, provider_results,
                   aggregated, report, raisedBy>>

\* extract_and_geocode_locations returns n locations
Locate(n) ==
    /\ UNCHANGED <<aiVars, ens, gen, fn>>
    /\ rpc = "locate"
    /\ nlocs' = n
    /\ events' = events \o LocationEvents(n)
    /\ rpc' = IF n > 0 THEN "satellite" ELSE "module"
    /\ UNCHANGED <<li, satellite_results, mi, results, provider_results,
                   aggregated, report, raisedBy>>

\* the j-th location the extractor returned: {name, latitude, longitude}
LocationAt(j) == [name |-> "place", latitude |-> 10 + j, longitude |-> 70 + j]

\* line 101: f"{loc['latitude']},{loc['longitude']}"
Coords(loc) == ToString(loc.latitude) \o "," \o ToString(loc.longitude)

SatInvoke(j) == [e |-> "sat_invoke", k |-> Coords(LocationAt(j)), i |-> j]
SatError(j) == [e |-> "log", k |-> "satellite_error", i |-> j]

\* lines 102-106: the envelope is kept, the exception is logged and dropped
KeptSatelliteResultsAll(sr, outcome, j) ==
    Append(sr, IF outcome = "ok" THEN SatelliteEnvelope(j)
               ELSE SyntheticEnvelope("satellite_verify", ModuleError))
KeptSatelliteResults(sr, outcome, j) ==
    IF outcome = "ok" THEN Append(sr, SatelliteEnvelope(j)) ELSE sr

\* lines 100-107: one location; outcome is what satellite_verify_analyze does
Satellite(outcome) ==
    /\ UNCHANGED <<aiVars, ens, gen, fn>>
    /\ rpc = "satellite"
    /\ LET sr == KeptSatelliteResults(satellite_results, outcome, li)
       IN /\ satellite_results' = sr
          /\ events' = events \o <<SatInvoke(li)>> \o
               (IF outcome = "ok" THEN <<>> ELSE <<SatError(li)>>)
          /\ IF li = nlocs
             THEN results' = results \o sr /\ rpc' = "module"
             ELSE UNCHANGED <<results, rpc>>
    /\ li' = li + 1
    /\ UNCHANGED <<nlocs, mi, provider_results, aggregated, report, raisedBy>>

ModuleStart ==
    /\ UNCHANGED <<aiVars, ens, gen, fn>>
    /\ rpc = "module"
    /\ events' = events \o ModuleStartEvents(mi)
    /\ rpc' = "running"
    /\ UNCHANGED <<nlocs, li, satellite_results, mi, results, provider_results,
                   aggregated, report, raisedBy>>

\* what follows a module, lines 177-180
AfterModule(i) == IF i = Total THEN "aggregate" ELSE "module"

\* lines 147-176: the except branch, entered with exception e after rs and
\* prs were built; sink is what its log_provider_decision does
ExceptBranch(rs, prs, evs, e, sink) ==
    /\ results' = Append(rs, SyntheticEnvelope(MODULES[mi], e))
    /\ provider_results' = Append(prs, ErrorRecord(MODULES[mi], e))
    /\ IF sink = "ok"
       THEN /\ events' = evs \o <<Log("error", mi), Log("provider_decision", mi)>>
            /\ rpc' = AfterModule(mi)
            /\ mi' = mi + 1
            /\ UNCHANGED raisedBy
       ELSE /\ events' = evs \o <<Log("error", mi)>>
            /\ rpc' = "raised"
            /\ raisedBy' = "log_provider_decision"
            /\ UNCHANGED mi

\* lines 125-146: the module returned res; sink1 is what the
\* log_provider_decision of the try block does, sink2 that of the except
ModuleReturns(res, sink1, sink2) ==
    /\ UNCHANGED <<aiVars, ens, gen, fn>>
    /\ rpc = "running"
    /\ res \in ModuleEnvelopes(mi)
    /\ UNCHANGED <<nlocs, li, satellite_results, aggregated, report>>
    /\ LET rs == Append(results, res)
           prs == Append(provider_results, SuccessRecord(MODULES[mi], res))
           evs == events \o <<Finished(mi)>>
       IN IF sink1 = "ok"
          THEN /\ sink2 = "ok"
               /\ results' = rs
               /\ provider_results' = prs
               /\ events' = evs \o <<Log("provider_decision", mi)>>
               /\ rpc' = AfterModule(mi)
               /\ mi' = mi + 1
               /\ UNCHANGED raisedBy
          ELSE ExceptBranch(rs, prs, evs, SinkError, sink2)

\* line 126 raised
ModuleRaises(sink) ==
    /\ UNCHANGED <<aiVars, ens, gen, fn>>
    /\ rpc = "running"
    /\ mi \in RaisingModules
    /\ UNCHANGED <<nlocs, li, satellite_results, aggregated, report>>
    /\ ExceptBranch(results, provider_results, events \o <<Threw(mi)>>, ModuleError, sink)

\* lines 179-201
AggregateStep ==
    /\ UNCHANGED <<aiVars, ens, gen, fn>>
    /\ rpc = "aggregate"
    /\ aggregated' = AggregateFrom(aggregated, results)
    /\ events' = events \o <<Aggregation, Status("generating", 0)>>
    /\ rpc' = "report"
    /\ UNCHANGED <<nlocs, li, satellite_results, mi, results, provider_results,
                   report, raisedBy>>

\* line 202; sink is what the log_analytics call of create_report does
ReportStep(sink) ==
    /\ UNCHANGED <<aiVars, ens, gen, fn>>
    /\ rpc = "report"
    /\ IF sink = "ok" /\ ~ReportRaises(aggregated)
       THEN /\ report' = CreateReport(results, aggregated)
            /\ events' = events \o <<Log("report_generated", 0)>>
            /\ rpc' = "final"
            /\ UNCHANGED raisedBy
       ELSE /\ rpc' = "raised"
            /\ raisedBy' = "create_report"
            /\ UNCHANGED <<report, events>>
    /\ UNCHANGED <<nlocs, li, satellite_results, mi, results, provider_results, aggregated>>

\* lines 204-231; s1 is what log_conversation does, s2 what log_analytics does
FinalStep(s1, s2) ==
    /\ UNCHANGED <<aiVars, ens, gen, fn>>
    /\ rpc = "final"
    /\ IF s1 = "raise"
       THEN /\ s2 = "ok"
            /\ events' = events \o SubSeq(FinalEvents, 1, 1)
            /\ rpc' = "raised"
            /\ raisedBy' = "log_conversation"
       ELSE IF s2 = "raise"
       THEN /\ events' = events \o SubSeq(FinalEvents, 1, 2)
            /\ rpc' = "raised"
            /\ raisedBy' = "log_analytics"
       ELSE /\ events' = events \o FinalEvents
            /\ rpc' = "returned"
            /\ UNCHANGED raisedBy
    /\ UNCHANGED <<nlocs, li, satellite_results, mi, results, provider_results,
                   aggregated, report>>

NextRun ==
    \/ RunStart
    \/ \E n \in FoundCounts : Locate(n)
    \/ \E outcome \in {"ok", "raise"} : Satellite(outcome)
    \/ ModuleStart
    \/ \E i \in 1..Total : \E res \in ModuleEnvelopes(i), sink1, sink2 \in SinkOutcomes :
          ModuleReturns(res, sink1, sink2)
    \/ \E sink \in SinkOutcomes : ModuleRaises(sink)
    \/ AggregateStep
    \/ \E sink \in SinkOutcomes : ReportStep(sink)
    \/ \E s1, s2 \in SinkOutcomes : FinalStep(s1, s2)

\* ============================================ ensemble of ai_orchestrate
\* the names of the AI_PROVIDERS table (ai_orchestrator.py, lines 8-41)
AI_PROVIDERS == <<"openai", "gemini", "huggingface", "cohere">>

MaxProviders == 3

\* available_providers (line 72): the loop of lines 75-89 takes whatever list
\* it is given; get_available_ai_providers yields <<>> or <<"cohere">>, a
\* store that knows the other providers of the table yields longer lists
RECURSIVE SubLists(_)
SubLists(l) ==
    IF l = <<>> THEN {<<>>}
    ELSE SubLists(Tail(l)) \cup {<<Head(l)>> \o t : t \in SubLists(Tail(l))}

ProviderLists == {l \in SubLists(AI_PROVIDERS) : Len(l) <= MaxProviders}

\* what one call of analyze (line 79) does: an envelope, or the exception
\* of its unguarded log_conversation
EnsembleOutcomes ==
    { [kind |-> "env", env |-> SuccessEnvelope(NormalizeAiOutput(Str(<<"foo">>))), e |-> <<>>],
      [kind |-> "env", env |-> SuccessEnvelope(NormalizeAiOutput(Str(<<"baz">>))), e |-> <<>>],
      [kind |-> "env", env |-> FailureEnvelope(<<"timeout">>), e |-> <<>>],
      [kind |-> "env", env |-> UnavailableEnvelope, e |-> <<>>],
      [kind |-> "raise", env |-> NoEnvelope, e |-> SinkError] }

AllProvidersFailed == <<"All", "providers", "failed.">>

\* f"{provider}: {reason}", as words
ErrorEntry(provider, reason) == <<provider \o ":">> \o reason

\* "; ".join(entries), as words: the separator sticks to the word before it
RECURSIVE JoinSemicolon(_)
JoinSemicolon(entries) ==
    IF entries = <<>> THEN <<>>
    ELSE IF Len(entries) = 1 THEN Head(entries)
    ELSE LET h == Head(entries) IN
         SubSeq(h, 1, Len(h) - 1) \o <<h[Len(h)] \o ";">> \o JoinSemicolon(Tail(entries))

\* " ".join(texts), as words
RECURSIVE JoinSpace(_)
JoinSpace(texts) ==
    IF texts = <<>> THEN <<>> ELSE Head(texts) \o JoinSpace(Tail(texts))

NoReturn == [provider |-> None, result |-> None, details |-> None, error |-> None]

InitEns ==
    ens = [pc |-> "idle", providers |-> <<>>, idx |-> 1, issued |-> <<>>,
           results |-> <<>>, errors |-> <<>>, calls |-> <<>>, ret |-> NoReturn]

\* lines 71-74
EnsembleStart(ps) ==
    /\ UNCHANGED <<aiVars, runVars, gen, fn>>
    /\ ens.pc = "idle"
    /\ ens' = [ens EXCEPT !.pc = "loop", !.providers = ps]

\* lines 79-85: analyze returned the envelope env for provider
OnCallReturned(st, provider, env) ==
    IF Truthy(env.result.error)
    THEN [st EXCEPT !.errors = Append(@, ErrorEntry(provider, env.result.error.v))]
    ELSE IF Truthy(env.result.text)
    THEN [st EXCEPT !.results = Append(@, [provider |-> provider, result |-> env.result.text.v])]
    ELSE st

\* lines 86-89: analyze raised e
OnCallRaisedPropagates(st, provider, e) == [st EXCEPT !.pc = "raised"]
OnCallRaised(st, provider, e) ==
    [st EXCEPT !.errors = Append(@, ErrorEntry(provider, e))]

\* lines 75-79: the next provider's analyze is called and awaited; the
\* coroutine of ai_orchestrate is suspended until that call ends
EnsembleIssue ==
    /\ UNCHANGED <<aiVars, runVars, gen, fn>>
    /\ ens.pc = "loop"
    /\ ens.idx <= Len(ens.providers)
    /\ ens' = [ens EXCEPT !.pc = "await",
                          !.issued = Append(@, ens.providers[ens.idx])]

\* the awaited call ends with outcome o: the rest of the loop turn
\* (lines 79-89)
EnsembleCall(o) ==
    /\ UNCHANGED <<aiVars, runVars, gen, fn>>
    /\ ens.pc = "await"
    /\ LET provider == ens.providers[ens.idx]
           st == [ens EXCEPT !.pc = "loop", !.idx = @ + 1,
                             !.calls = Append(@, [provider |-> provider, outcome |-> o])]
       IN ens' = IF o.kind = "env"
                 THEN OnCallReturned(st, provider, o.env)
                 ELSE OnCallRaised(st, provider, o.e)

\* the error field of line 96
MergedError(merged, errors) ==
    IF merged # <<>> THEN None
    ELSE IF errors # <<>> THEN Str(JoinSemicolon(errors)) ELSE Str(AllProvidersFailed)

\* the error field of lines 101-102
CombinedError(errors) ==
    IF errors # <<>> THEN Str(JoinSemicolon(errors)) ELSE Str(AllProvidersFailed)

\* lines 90-103
EnsembleReturn ==
    /\ UNCHANGED <<aiVars, runVars, gen, fn>>
    /\ ens.pc = "loop"
    /\ ens.idx > Len(ens.providers)
    /\ LET merged == JoinSpace([j \in DOMAIN ens.results |-> ens.results[j].result]) IN
       ens' = [ens EXCEPT
                 !.pc = "done",
                 !.ret = IF ens.results # <<>>
                         THEN [provider |-> List([j \in DOMAIN ens.results |-> ens.results[j].provider]),
                               result |-> Str(merged),
                               details |-> None,
                               error |-> MergedError(merged, ens.errors)]
                         ELSE [provider |-> None,
                               result |-> None,
                               details |-> CombinedError(ens.errors),
                               error |-> CombinedError(ens.errors)]]

NextEnsemble ==
    \/ \E ps \in ProviderLists : EnsembleStart(ps)
    \/ EnsembleIssue
    \/ \E o \in EnsembleOutcomes : EnsembleCall(o)
    \/ EnsembleReturn

\* ------------------------------------------- the ensemble on the store
\* get_available_ai_providers (ai.py, lines 249-252) on the stored record
GetAvailableAiProviders(r) == IF r.available THEN <<"cohere">> ELSE <<>>

\* what the awaited analyze hands to line 79
CallOutcome(env) ==
    IF env = Raised
    THEN [kind |-> "raise", env |-> NoEnvelope, e |-> SinkError]
    ELSE [kind |-> "env", env |-> env, e |-> <<>>]

\* lines 79-89 for the provider at ens.idx of st, the call having ended with o
LoopTurn(st, o) ==
    LET provider == st.providers[st.idx]
        nx == [st EXCEPT !.pc = "loop", !.idx = @ + 1,
                         !.calls = Append(@, [provider |-> provider, outcome |-> o])]
    IN IF o.kind = "env"
       THEN OnCallReturned(nx, provider, o.env)
       ELSE OnCallRaised(nx, provider, o.e)

\* lines 71-79 without a suspension: the list is read from the store and,
\* if it is not empty, analyze runs up to its own first suspension point
\* (the availability checks of ai.py lines 157 and 130)
EnsembleQuery(sink) ==
    /\ UNCHANGED <<runVars, gen, fn>>
    /\ UNCHANGED <<now, nticks, pc, lastEnv, ret>>
    /\ ens.pc = "idle"
    /\ LET ps == GetAvailableAiProviders(rec)
           st == [ens EXCEPT !.pc = "await", !.providers = ps, !.issued = ps]
       IN IF ps = <<>>
          THEN /\ sink = "ok"
               /\ ens' = [ens EXCEPT !.pc = "loop"]
               /\ UNCHANGED <<rec, rlAt>>
          ELSE LET first == IsAiAvailableOn(rec, now) IN
               IF ~first.ret
               THEN /\ rec' = first.rec
                    /\ ens' = LoopTurn(st, CallOutcome(Returned(UnavailableEnvelope, sink)))
                    /\ UNCHANGED rlAt
               ELSE /\ sink = "ok"
                    /\ rec' = first.rec
                    /\ ens' = st
                    /\ UNCHANGED rlAt

\* the provider call ends with o: analyze lines 164-208, then lines 79-89
EnsembleAnswer(o, sink) ==
    /\ UNCHANGED <<runVars, gen, fn>>
    /\ UNCHANGED <<now, nticks, pc, lastEnv, ret>>
    /\ ens.pc = "await"
    /\ LET a == AnalyzeAnswer(rec, now, SyncCall(o)) IN
         /\ rec' = a.rec
         /\ rlAt' = IF a.limited THEN now ELSE rlAt
         /\ ens' = LoopTurn(ens, CallOutcome(Returned(a.env, sink)))

\* ai_orchestrate(ensemble=True) next to the other users of the store
NextEnsembleStore ==
    \/ \E d \in ShortTickSteps : Tick(d)
    \/ IsAiAvailable
    \/ \E lt \in LimitTypes : MarkAiUnavailable(lt)
    \/ MarkAiAvailable
    \/ \E sink \in SinkOutcomes : EnsembleQuery(sink)
    \/ \E o \in ChatOutcomes, sink \in SinkOutcomes : EnsembleAnswer(o, sink)
    \/ EnsembleReturn

\* ============================= ask_cohere and normalize_ai_output alone
\* keys and values of the dicts handed to normalize_ai_output
DictKeys == {"text", "images", "error", "extra"}
DictValues == {Str(<<"foo">>), Str(<<>>), List(<<"u1">>), None, IntVal(7)}
Dicts == UNION {[K -> DictValues] : K \in SUBSET DictKeys}

\* what normalize_ai_output may be given: strings (sentinels in either
\* case among them), dicts, and values that are neither
RawOutputs ==
    { Str(<<"foo">>), Str(<<>>), Str(<<"syntax", "error">>),
      Str(SentinelPrefix \o <<"timeout">>), Str(Lower(SentinelPrefix)),
      Str(<<"Error", "during">>), None, IntVal(7), List(<<"foo">>) }
    \cup {Dict(d) : d \in Dicts}

NoCall == [op |-> "none", input |-> None, chat |-> [kind |-> "none", v |-> <<>>],
           called |-> FALSE, raised |-> FALSE, answer |-> None, norm |-> EmptyOutput]

InitFn == fn = NoCall

\* normalize_ai_output(fn.input)
Normalize ==
    /\ UNCHANGED <<aiVars, runVars, ens, gen>>
    /\ fn.op = "pending"
    /\ fn' = [fn EXCEPT !.op = "normalized", !.norm = NormalizeAiOutput(fn.input)]

\* ask_cohere(prompt) (lines 110-132) with the provider ending in o, and
\* the normalisation analyze applies to its answer (line 165)
AskCohere(o) ==
    /\ UNCHANGED <<runVars, ens, gen>>
    /\ UNCHANGED <<now, nticks, pc, lastEnv, ret, rlAt>>
    /\ LET a == IsAiAvailableOn(rec, now) IN
         /\ rec' = a.rec
         /\ fn' = IF ~a.ret
                  THEN [NoCall EXCEPT !.op = "asked", !.chat = o, !.raised = TRUE]
                  ELSE [NoCall EXCEPT !.op = "asked", !.chat = o, !.called = TRUE,
                                      !.answer = Str(SyncCall(o)),
                                      !.norm = NormalizeAiOutput(Str(SyncCall(o)))]

\* normalize_ai_output on every kind of input
NextNormalize == Normalize

\* direct ask_cohere calls next to the operations that change availability
NextAskCohere ==
    \/ \E d \in ShortTickSteps : Tick(d)
    \/ \E lt \in LimitTypes : MarkAiUnavailable(lt)
    \/ MarkAiAvailable
    \/ \E o \in ChatOutcomes : AskCohere(o)

\* ===================================== analyze on a store that can fail
\* an access to the availability file (lines 29-42) succeeds or raises OSError
StoreOutcomes == {"ok", "fail"}

\* the except branch of analyze (lines 177-188) entered with exception e,
\* base being the envelope built so far; io is what the file access of its
\* mark_ai_unavailable does: when that raises too, analyze raises
ExceptOn(r, t, e, io, base) ==
    IF io = "ok"
    THEN [env |-> Envelope([base.result EXCEPT !.text = Str(FailedPrefix \o e),
                                               !.error = Str(e)],
                           ConfidenceNone, base.details.provider, Str(e)),
          rec |-> MarkUnavailableOn(r, FailureLimitType(e), t),
          limited |-> IsRateLimit(e)]
    ELSE [env |-> Raised, rec |-> r, limited |-> FALSE]

\* analyze up to its first suspension point; io157 is what the file access
\* of the availability check of line 157 does (outside the try block), io130
\* that of the check inside ask_cohere (line 130, inside the try block) and
\* ioExc that of the except branch
AnalyzeStartIO(p, io157, io130, ioExc, sink) ==
    /\ UNCHANGED <<runVars, ens, gen, fn>>
    /\ pc[p] = "idle"
    /\ UNCHANGED <<now, nticks, ret>>
    /\ IF io157 = "fail"
       THEN /\ lastEnv' = Raised
            /\ UNCHANGED <<rec, pc, rlAt>>
       ELSE LET first == IsAiAvailableOn(rec, now) IN
            IF ~first.ret
            THEN /\ rec' = first.rec
                 /\ lastEnv' = Returned(UnavailableEnvelope, sink)
                 /\ UNCHANGED <<pc, rlAt>>
            ELSE IF io130 = "fail"
            THEN LET x == ExceptOn(first.rec, now, IoError, ioExc, NoEnvelope) IN
                 /\ rec' = x.rec
                 /\ rlAt' = IF x.limited THEN now ELSE rlAt
                 /\ lastEnv' = Returned(x.env, sink)
                 /\ UNCHANGED pc
            ELSE LET second == IsAiAvailableOn(first.rec, now) IN
                 IF ~second.ret
                 THEN LET x == ExceptOn(second.rec, now, UnavailableExc, ioExc, NoEnvelope) IN
                      /\ rec' = x.rec
                      /\ rlAt' = IF x.limited THEN now ELSE rlAt
                      /\ lastEnv' = Returned(x.env, sink)
                      /\ UNCHANGED pc
                 ELSE /\ rec.used < MaxUsed
                      /\ sink = "ok"
                      /\ rec' = second.rec
                      /\ pc' = [pc EXCEPT ![p] = "inflight"]
                      /\ UNCHANGED <<lastEnv, rlAt>>

\* analyze resumed with the provider's outcome o (lines 164-208); ioMark is
\* what the file access of mark_ai_available (line 172) does, ioInc that of
\* increment_ai_usage (line 174) and ioExc that of the except branch
AnalyzeFinishIO(p, o, ioMark, ioInc, ioExc, sink) ==
    /\ UNCHANGED <<runVars, ens, gen, fn>>
    /\ pc[p] = "inflight"
    /\ pc' = [pc EXCEPT ![p] = "idle"]
    /\ UNCHANGED <<now, nticks, ret>>
    /\ LET norm == NormalizeAiOutput(Str(SyncCall(o)))
           a == IF ~Usable(norm)
                THEN ExceptOn(rec, now, UnusableExc(norm), ioExc, NoEnvelope)
                ELSE IF ioMark = "fail"
                THEN ExceptOn(rec, now, IoError, ioExc, SuccessEnvelope(norm))
                ELSE IF ioInc = "fail"
                THEN ExceptOn(MarkAvailableOn(rec), now, IoError, ioExc,
                              SuccessEnvelope(norm))
                ELSE [env |-> SuccessEnvelope(norm),
                      rec |-> IncrementUsageOn(MarkAvailableOn(rec)),
                      limited |-> FALSE]
       IN /\ rec' = a.rec
          /\ rlAt' = IF a.limited THEN now ELSE rlAt
          /\ lastEnv' = Returned(a.env, sink)

\* concurrent analyze calls on a store whose file accesses may fail
NextIO ==
    \/ \E d \in ShortTickSteps : Tick(d)
    \/ ResetAiAvailability
    \/ \E p \in Calls : \E io157, io130, ioExc \in StoreOutcomes, sink \in SinkOutcomes :
          AnalyzeStartIO(p, io157, io130, ioExc, sink)
    \/ \E p \in Calls : \E o \in ChatOutcomes :
          \E ioMark, ioInc, ioExc \in StoreOutcomes, sink \in SinkOutcomes :
             AnalyzeFinishIO(p, o, ioMark, ioInc, ioExc, sink)

\* ==================================================== research.analyze
\* the interpreter's recursion limit (1000 in CPython), scaled down
RecursionLimit == 3

RecursionMsg == <<"maximum", "recursion", "depth", "exceeded">>
SearchError == <<"search", "down">>

\* what the name analyze is bound to in cogs/research.py when line 122 runs:
\* the import of line 7 is rebound by the def of line 98
ImportedAnalyze == "cogs.ai.analyze"
AnalyzeBinding == "cogs.research.analyze"

ResearchModes == {"ask", "summarize"}
\* duckduckgo_search: the number of results it returns, or it raises
SearchOutcomes == {"0", "1", "2", "raise"}

\* lines 134-140 with result.error set
ResearchError(e) == Env("research", [EmptyOutput EXCEPT !.error = Str(e)], 0)

ResearchFrame(mode) ==
    [mode |-> mode, web |-> "none", pc |-> "search", env |-> NoEnvelope]

NoResearch == [op |-> "research", frames |-> <<>>, calls |-> <<>>, out |-> NoEnvelope]

Top == fn.frames[Len(fn.frames)]
SetTop(f) == [fn.frames EXCEPT ![Len(fn.frames)] = f]

\* research.analyze(query, options) is called from outside
ResearchAnalyze(mode) ==
    /\ UNCHANGED <<aiVars, runVars, ens, gen>>
    /\ fn.op = "research"
    /\ fn.frames = <<>>
    /\ fn.out = NoEnvelope
    /\ fn' = [fn EXCEPT !.frames = <<ResearchFrame(mode)>>]

\* line 118 of the innermost call
DuckduckgoSearch(outcome) ==
    /\ UNCHANGED <<aiVars, runVars, ens, gen>>
    /\ fn.op = "research"
    /\ fn.frames # <<>>
    /\ Top.pc = "search"
    /\ fn' = [fn EXCEPT
                !.calls = Append(@, "duckduckgo_search"),
                !.frames = SetTop(IF outcome = "raise"
                                  THEN [Top EXCEPT !.pc = "return",
                                                   !.env = ResearchError(SearchError)]
                                  ELSE [Top EXCEPT !.pc = "call", !.web = outcome])]

\* line 122 of the innermost call: the callee is what analyze is bound to;
\* its options carry task_type only, so its mode is "ask" (line 117)
NestedAnalyze ==
    /\ UNCHANGED <<aiVars, runVars, ens, gen>>
    /\ fn.op = "research"
    /\ fn.frames # <<>>
    /\ Top.pc = "call"
    /\ IF Len(fn.frames) >= RecursionLimit
       THEN fn' = [fn EXCEPT
                     !.frames = SetTop([Top EXCEPT !.pc = "return",
                                                   !.env = ResearchError(RecursionMsg)])]
       ELSE fn' = [fn EXCEPT
                     !.calls = Append(@, AnalyzeBinding),
                     !.frames = Append(SetTop([Top EXCEPT !.pc = "await"]),
                                       ResearchFrame("ask"))]

\* lines 123-140: the innermost call returns to the call awaiting it
ResearchReturn ==
    /\ UNCHANGED <<aiVars, runVars, ens, gen>>
    /\ fn.op = "research"
    /\ fn.frames # <<>>
    /\ Top.pc = "return"
    /\ LET ai_result == Top.env
           rest == SubSeq(fn.frames, 1, Len(fn.frames) - 1)
       IN IF rest = <<>>
          THEN fn' = [fn EXCEPT !.frames = <<>>, !.out = ai_result]
          ELSE LET caller == rest[Len(rest)]
                   env == IF Truthy(ai_result.result.error)
                          THEN ResearchError(ai_result.result.error.v)
                          ELSE Env("research",
                                   [EmptyOutput EXCEPT !.text = ai_result.result.text],
                                   ai_result.confidence)
               IN fn' = [fn EXCEPT
                           !.frames = [rest EXCEPT ![Len(rest)] =
                                          [caller EXCEPT !.pc = "return", !.env = env]]]

NextResearch ==
    \/ \E mode \in ResearchModes : ResearchAnalyze(mode)
    \/ \E outcome \in SearchOutcomes : DuckduckgoSearch(outcome)
    \/ NestedAnalyze
    \/ ResearchReturn

\* =================================================== footprint.analyze
\* the keys of OSINT_CHECKS (the docstring of line 122; the table itself is
\* not part of the sources)
OSINT_TYPES == {"email", "username", "ip", "domain", "url"}

InvalidType == <<"Invalid", "or", "missing", "type", "in", "options.">>

\* options as a function from keys to strings; NoOptions is None
NoOptions == [none |-> "none"]
SessionOnly == [session_id |-> "s1", user_id |-> "u1"]
FootprintOptions ==
    { NoOptions, SessionOnly,
      [session_id |-> "s1", type |-> "email"],
      [session_id |-> "s1", type |-> "IP"],
      [session_id |-> "s1", type |-> "phone"] }

\* line 141
TypeOf(opts) ==
    IF opts # NoOptions /\ "type" \in DOMAIN opts THEN LowerWord(opts["type"]) ELSE ""

\* what a check function hands to run_check (lines 100-114): a status, or
\* an exception, which leaves status None
CheckStatuses == {"True", "False", "None"}
CheckRuns == UNION { [1..n -> CheckStatuses] : n \in 1..2 }

\* lines 158-166: one line per check
CheckLine(st) ==
    IF st = "True" THEN "Positive" ELSE IF st = "False" THEN "Negative" ELSE "Error"
CheckLines(checks) == [j \in DOMAIN checks |-> CheckLine(checks[j])]

\* advanced_confidence_score (not part of the sources): the share of
\* positive checks, in tenths
AdvancedConfidenceScore(checks) ==
    (10 * Cardinality({j \in DOMAIN checks : checks[j] = "True"})) \div Len(checks)

\* lines 143-151
InvalidTypeEnvelope ==
    [Env("footprint", [EmptyOutput EXCEPT !.error = Str(InvalidType)], 0)
       EXCEPT !.details.error = Str(InvalidType)]

\* what the name analyze is bound to in cogs/footprint.py when line 184
\* runs: the import of line 10 is rebound by the def of line 119
FootprintBinding == "cogs.footprint.analyze"

\* lines 125-151: a call up to its first suspension point
FootprintFrame(opts) ==
    IF TypeOf(opts) \notin OSINT_TYPES
    THEN [pc |-> "return", type |-> TypeOf(opts), text |-> <<>>, confidence |-> 0,
          env |-> InvalidTypeEnvelope]
    ELSE [pc |-> "checks", type |-> TypeOf(opts), text |-> <<>>, confidence |-> 0,
          env |-> NoEnvelope]

NoFootprint ==
    [op |-> "footprint", opts |-> NoOptions, frames |-> <<>>, calls |-> <<>>,
     out |-> NoEnvelope]

\* footprint.analyze(query, options) is called from outside
FootprintAnalyze(opts) ==
    /\ UNCHANGED <<aiVars, runVars, ens, gen>>
    /\ fn.op = "footprint"
    /\ fn.frames = <<>>
    /\ fn.out = NoEnvelope
    /\ fn' = [fn EXCEPT !.opts = opts, !.frames = <<FootprintFrame(opts)>>]

\* lines 153-172: the checks, the text and the confidence
RunChecks(checks) ==
    /\ UNCHANGED <<aiVars, runVars, ens, gen>>
    /\ fn.op = "footprint"
    /\ fn.frames # <<>>
    /\ Top.pc = "checks"
    /\ fn' = [fn EXCEPT
                !.calls = Append(@, "_run_checks_parallel"),
                !.frames = SetTop([Top EXCEPT !.pc = "summary",
                                              !.text = CheckLines(checks),
                                              !.confidence = AdvancedConfidenceScore(checks)])]

\* lines 175-184: the summary call; its options carry session_id, user_id
\* and task_type
SummaryCall ==
    /\ UNCHANGED <<aiVars, runVars, ens, gen>>
    /\ fn.op = "footprint"
    /\ fn.frames # <<>>
    /\ Top.pc = "summary"
    /\ fn' = [fn EXCEPT
                !.calls = Append(@, FootprintBinding),
                !.frames = Append(SetTop([Top EXCEPT !.pc = "await"]),
                                  FootprintFrame(SessionOnly))]

\* the envelope of lines 229-235
FootprintEnvelope(f, err) ==
    [Env("footprint", [EmptyOutput EXCEPT !.text = Str(f.text), !.error = err],
         f.confidence)
       EXCEPT !.details.error = err]

\* the innermost call returns: to the summary step awaiting it (lines
\* 185-187), or to the outside
FootprintReturn ==
    /\ UNCHANGED <<aiVars, runVars, ens, gen>>
    /\ fn.op = "footprint"
    /\ fn.frames # <<>>
    /\ Top.pc = "return"
    /\ LET ai_summary == Top.env
           rest == SubSeq(fn.frames, 1, Len(fn.frames) - 1)
       IN IF rest = <<>>
          THEN fn' = [fn EXCEPT !.frames = <<>>, !.out = ai_summary]
          ELSE LET caller == rest[Len(rest)]
                   summary_text == ai_summary.result.text.v
                   text == IF summary_text # <<>>
                           THEN caller.text \o <<"AI", "Summary:">> \o summary_text
                           ELSE caller.text
               IN fn' = [fn EXCEPT
                           !.frames = [rest EXCEPT ![Len(rest)] =
                                          [caller EXCEPT !.pc = "log", !.text = text]]]

\* lines 191-235: sink is what the logging of the try block does, sink2
\* what the log_conversation of the except branch does
FootprintLog(sink, sink2) ==
    /\ UNCHANGED <<aiVars, runVars, ens, gen>>
    /\ fn.op = "footprint"
    /\ fn.frames # <<>>
    /\ Top.pc = "log"
    /\ IF sink = "ok"
       THEN /\ sink2 = "ok"
            /\ fn' = [fn EXCEPT !.frames = SetTop([Top EXCEPT
                          !.pc = "return", !.env = FootprintEnvelope(Top, None)])]
       ELSE fn' = [fn EXCEPT !.frames = SetTop([Top EXCEPT
                          !.pc = "return",
                          !.env = IF sink2 = "ok"
                                  THEN FootprintEnvelope(Top, Str(SinkError))
                                  ELSE Raised])]

NextFootprint ==
    \/ \E opts \in FootprintOptions : FootprintAnalyze(opts)
    \/ \E checks \in CheckRuns : RunChecks(checks)
    \/ SummaryCall
    \/ FootprintReturn
    \/ \E sink, sink2 \in SinkOutcomes : FootprintLog(sink, sink2)

\* ============================ summarize_osint_footprint and ask_any_llm
\* what a provider helper of utils/ai_helpers.py does when called: it
\* returns a value or raises. The helpers of lines 39-52 are placeholders to
\* be replaced by real API calls; their callers handle every outcome
Ret(x) == [kind |-> "return", v |-> x]
Throw == [kind |-> "raise", v |-> None]

LlmOutcomes(p) ==
    { Ret(Str(<<p, "summary">>)), Ret(Str(<<" ", p, "summary", " ">>)),
      Ret(Str(<<p, "answer", "placeholder">>)),
      Ret(Str(<<>>)), Ret(None), Ret(List(<<p>>)), Throw }

\* ask_openai (lines 24-37) catches every exception itself
OpenAiOutcomes ==
    { Ret(Str(<<"openai", "summary">>)), Ret(Str(<<>>)),
      Ret(Str(<<"Error", "during", "OpenAI", "completion.">>)) }

NoSummary == <<"No", "summary", "generated.">>

\* lines 110 and 121: `summary and "placeholder" not in summary.lower()`;
\* a truthy value that is no string has no lower()
PlaceholderTest(x) ==
    IF ~Truthy(x) THEN "skip"
    ELSE IF x.t # "str" THEN "raise"
    ELSE IF Contains(Lower(x.v), <<"placeholder">>) THEN "skip"
    ELSE "usable"

Asked(p, o) == [p |-> p, o |-> o]

NoSummarize == [op |-> "summarize", pc |-> "gemini", asked |-> <<>>, out |-> None]

\* lines 107-113
TryGemini(g) ==
    /\ UNCHANGED <<aiVars, runVars, ens, gen>>
    /\ fn.op = "summarize"
    /\ fn.pc = "gemini"
    /\ LET usable == g.kind = "return" /\ PlaceholderTest(g.v) = "usable" IN
       fn' = [fn EXCEPT !.asked = Append(@, Asked("gemini", g)),
                        !.pc = IF usable THEN "returned" ELSE "parallel",
                        !.out = IF usable THEN Str(Strip(g.v.v)) ELSE None]

\* lines 116-124: both tasks are created, gather raises when one of them
\* raised, then the results are tested in order; Throw stands for leaving
\* the block without a return
AfterGather(h, c) ==
    IF h.kind = "raise" \/ c.kind = "raise" THEN Throw
    ELSE IF PlaceholderTest(h.v) = "raise" THEN Throw
    ELSE IF PlaceholderTest(h.v) = "usable" THEN Ret(Str(Strip(h.v.v)))
    ELSE IF PlaceholderTest(c.v) = "raise" THEN Throw
    ELSE IF PlaceholderTest(c.v) = "usable" THEN Ret(Str(Strip(c.v.v)))
    ELSE Throw

TryParallel(h, c) ==
    /\ UNCHANGED <<aiVars, runVars, ens, gen>>
    /\ fn.op = "summarize"
    /\ fn.pc = "parallel"
    /\ LET r == AfterGather(h, c) IN
       fn' = [fn EXCEPT !.asked = @ \o <<Asked("huggingface", h), Asked("cohere", c)>>,
                        !.pc = IF r.kind = "return" THEN "returned" ELSE "openai",
                        !.out = r.v]

\* lines 126-132
TryOpenAi(o) ==
    /\ UNCHANGED <<aiVars, runVars, ens, gen>>
    /\ fn.op = "summarize"
    /\ fn.pc = "openai"
    /\ fn' = [fn EXCEPT !.asked = Append(@, Asked("openai", o)),
                        !.pc = "returned",
                        !.out = IF o.kind = "raise"
                                THEN Str(<<"No", "summary", "generated", "(all",
                                           "AI", "providers", "failed).">>)
                                ELSE IF Truthy(o.v) THEN Str(Strip(o.v.v))
                                ELSE Str(NoSummary)]

\* automation.py, line 20: the providers ask_any_llm tries, in order
LlmOrder == <<"gemini", "huggingface", "cohere">>

\* the slip of leaving out the isinstance test
AcceptedAnyTruthy(x) == Truthy(x)

\* line 23: `result and isinstance(result, str)`
Accepted(x) == Truthy(x) /\ x.t = "str"

NoAsk == [op |-> "ask_any_llm", pc |-> "loop", i |-> 1, asked |-> <<>>, out |-> None]

\* lines 20-27: one turn of the loop, the provider ending in o; after the
\* last turn the function returns ""
AskNext(o) ==
    /\ UNCHANGED <<aiVars, runVars, ens, gen>>
    /\ fn.op = "ask_any_llm"
    /\ fn.pc = "loop"
    /\ fn.i \in DOMAIN LlmOrder
    /\ o \in LlmOutcomes(LlmOrder[fn.i])
    /\ LET ok == o.kind = "return" /\ Accepted(o.v) IN
       fn' = [fn EXCEPT !.asked = Append(@, Asked(LlmOrder[fn.i], o)),
                        !.i = @ + 1,
                        !.pc = IF ok \/ fn.i = Len(LlmOrder) THEN "returned" ELSE "loop",
                        !.out = IF ok THEN o.v
                                ELSE IF fn.i = Len(LlmOrder) THEN Str(<<>>) ELSE None]

NextAskAny ==
    \E q \in DOMAIN LlmOrder : \E o \in LlmOutcomes(LlmOrder[q]) : AskNext(o)

NextSummarize ==
    \/ \E g \in LlmOutcomes("gemini") : TryGemini(g)
    \/ \E h \in LlmOutcomes("huggingface"), c \in LlmOutcomes("cohere") : TryParallel(h, c)
    \/ \E o \in OpenAiOutcomes : TryOpenAi(o)

\* ================================================ bulk source generator
\* advanced_osint_source_generator.py; times are in tenths of a second
MAX_WORKERS == 3
COHERE_CALL_LIMIT == 10
Window == 600          \* the 60 of lines 30, 34 and 39
Slack == 1             \* the 0.1 of line 34
InitialBackoff == 100  \* line 53
MaxBackoff == 800      \* line 54

MaxGenTicks == 2
MaxAdmissions == 11

Workers == 1..MAX_WORKERS
\* the worker that runs _ask_cohere step by step
Asker == 1
NoWorker == 0

GenTickSteps == {299, 300}
\* how much longer than asked a time.sleep may last
Oversleep == {0, 1}

\* cohere_client.chat as _ask_cohere sees it: a response text, or an
\* exception with or without a status_code attribute
GenChatOutcomes ==
    { [kind |-> "text", v |-> <<"foo">>, status |-> 0],
      [kind |-> "text", v |-> <<" ", "foo">>, status |-> 0],
      [kind |-> "text", v |-> <<>>, status |-> 0],
      [kind |-> "raise", v |-> <<"too", "many", "requests">>, status |-> 429],
      [kind |-> "raise", v |-> <<"server", "error">>, status |-> 500],
      [kind |-> "raise", v |-> <<"429">>, status |-> 0] }

NoOutcome == [kind |-> "none", v |-> <<>>, status |-> 0]

IdleWorker ==
    [pc |-> "idle", wake |-> 0, backoff |-> InitialBackoff, waits |-> <<>>,
     last |-> NoOutcome, ret |-> None, t0 |-> 0]

InitGen ==
    gen = [now |-> 0, ticks |-> 0, stamps |-> <<>>, lock |-> NoWorker,
           admitted |-> <<>>, w |-> [i \in Workers |-> IdleWorker]]

\* [t for t in call_timestamps if now - t < 60]
Recent(stamps, t) == SelectSeq(stamps, LAMBDA s : t - s < Window)

\* the slip of testing > instead of >=
GateFullOffByOne(stamps) == Len(stamps) > COHERE_CALL_LIMIT
\* line 32
GateFull(stamps) == Len(stamps) >= COHERE_CALL_LIMIT

\* line 34
WaitTime(stamps, t) == Window - (t - stamps[1]) + Slack

\* the clock of the generator's machine moves on
GenTick(d) ==
    /\ UNCHANGED <<aiVars, runVars, ens, fn>>
    /\ gen.ticks < MaxGenTicks
    /\ gen' = [gen EXCEPT !.now = @ + d, !.ticks = @ + 1]

\* a worker reaches line 56, for the first time or after the rest of an
\* earlier turn of the loop, and calls wait_for_rate_limit
GateCall(i) ==
    /\ UNCHANGED <<aiVars, runVars, ens, fn>>
    /\ gen.w[i].pc \in {"idle", "chat"}
    /\ Len(gen.admitted) < MaxAdmissions
    /\ gen' = [gen EXCEPT !.w[i].pc = "lock"]

\* lines 27-36 on the generator state g: the lock is taken, the list is
\* cleaned and, when it is full, the thread goes to sleep holding the lock
AcquireOn(g, i) ==
    LET kept == Recent(g.stamps, g.now) IN
    IF GateFull(kept)
    THEN [g EXCEPT !.lock = i, !.stamps = kept,
                   !.w[i].pc = "sleeping",
                   !.w[i].wake = g.now + WaitTime(kept, g.now)]
    ELSE [g EXCEPT !.lock = i, !.stamps = kept,
                   !.w[i].pc = "record"]

GateAcquire(i) ==
    /\ UNCHANGED <<aiVars, runVars, ens, fn>>
    /\ gen.w[i].pc = "lock"
    /\ gen.lock = NoWorker
    /\ gen' = AcquireOn(gen, i)

\* lines 36-39 on g: time.sleep returns, no earlier than asked; the list
\* is cleaned again
WakeOn(g, i, late) ==
    LET t == Max(g.now, g.w[i].wake) + late IN
    [g EXCEPT !.now = t, !.stamps = Recent(@, t), !.w[i].pc = "record"]

GateWake(i, late) ==
    /\ UNCHANGED <<aiVars, runVars, ens, fn>>
    /\ gen.w[i].pc = "sleeping"
    /\ gen' = WakeOn(gen, i, late)

\* the slip of leaving the with block without releasing the lock
RecordOnKeepsLock(g, i) ==
    [g EXCEPT !.stamps = Append(@, g.now),
              !.admitted = Append(@, g.now),
              !.w[i].pc = "chat"]
\* line 42 and the end of the with block on g: the call is recorded and the
\* lock released; the worker goes on to the provider call
RecordOn(g, i) ==
    [g EXCEPT !.stamps = Append(@, g.now),
              !.admitted = Append(@, g.now),
              !.lock = NoWorker,
              !.w[i].pc = "chat"]

GateRecord(i) ==
    /\ UNCHANGED <<aiVars, runVars, ens, fn>>
    /\ gen.w[i].pc = "record"
    /\ gen' = RecordOn(gen, i)

\* MAX_WORKERS threads going through wait_for_rate_limit
NextGate ==
    \/ \E d \in GenTickSteps : GenTick(d)
    \/ \E i \in Workers : GateCall(i)
    \/ \E i \in Workers : GateAcquire(i)
    \/ \E i \in Workers, late \in Oversleep : GateWake(i, late)
    \/ \E i \in Workers : GateRecord(i)

\* -------------------------------------------- LLMClient._ask_cohere
\* lines 53-56: a call of _ask_cohere starts
AskStart ==
    /\ UNCHANGED <<aiVars, runVars, ens, fn>>
    /\ gen.w[Asker].pc = "idle"
    /\ Len(gen.admitted) < MaxAdmissions
    /\ gen' = [gen EXCEPT !.w[Asker] = [IdleWorker EXCEPT !.pc = "lock", !.t0 = gen.now]]

\* line 66
AskText(v) == IF v # <<>> THEN Str(Strip(v)) ELSE None

\* the slip of leaving out the ceiling
NextBackoffUncapped(b) == b * 2
\* line 72
NextBackoff(b) == Min(b * 2, MaxBackoff)

\* lines 58-75: the provider call ends with o
AskChat(o) ==
    /\ UNCHANGED <<aiVars, runVars, ens, fn>>
    /\ gen.w[Asker].pc = "chat"
    /\ gen' = IF o.kind = "text"
              THEN [gen EXCEPT !.w[Asker].pc = "idle", !.w[Asker].last = o,
                               !.w[Asker].ret = AskText(o.v)]
              ELSE IF o.status = 429
              THEN [gen EXCEPT !.w[Asker].pc = "backoff", !.w[Asker].last = o,
                               !.w[Asker].wake = gen.now + gen.w[Asker].backoff,
                               !.w[Asker].waits = Append(@, gen.w[Asker].backoff)]
              ELSE [gen EXCEPT !.w[Asker].pc = "idle", !.w[Asker].last = o,
                               !.w[Asker].ret = None]

\* lines 71-73 and back to line 56: the sleep ends, the backoff doubles
AskRetry(late) ==
    /\ UNCHANGED <<aiVars, runVars, ens, fn>>
    /\ gen.w[Asker].pc = "backoff"
    /\ Len(gen.admitted) < MaxAdmissions
    /\ gen' = [gen EXCEPT !.now = Max(gen.now, gen.w[Asker].wake) + late,
                          !.w[Asker].backoff = NextBackoff(@),
                          !.w[Asker].pc = "lock"]

\* one thread calling _ask_cohere again and again
NextAsk ==
    \/ AskStart
    \/ GateAcquire(Asker)
    \/ \E late \in Oversleep : GateWake(Asker, late)
    \/ GateRecord(Asker)
    \/ \E o \in GenChatOutcomes : AskChat(o)
    \/ \E late \in Oversleep : AskRetry(late)

\* ------------------------------- the gate under workers that never stop
\* Lines 29-42 use only differences between time.time() and the stored
\* times, so a state can be written as seen from its own instant: the clock
\* back at 0, the stored times counted from there, the times that have left
\* the window dropped as lines 30 and 39 will drop them, and the history
\* of admissions forgotten.
Rebase(g) ==
    [g EXCEPT !.now = 0, !.ticks = 0, !.admitted = <<>>,
              !.stamps = LET kept == Recent(g.stamps, g.now)
                         IN [k \in 1..Len(kept) |-> kept[k] - g.now],
              !.w = [i \in Workers |->
                       [g.w[i] EXCEPT !.wake = IF g.w[i].pc = "sleeping"
                                               THEN Max(@ - g.now, 0)
                                               ELSE 0]]]

\* half a window goes by
LoopTick ==
    /\ UNCHANGED <<aiVars, runVars, ens, fn>>
    /\ gen' = Rebase([gen EXCEPT !.now = @ + Window \div 2])

\* line 56 reached by a worker starting a call of _ask_cohere
LoopCall(i) ==
    /\ UNCHANGED <<aiVars, runVars, ens, fn>>
    /\ gen.w[i].pc = "idle"
    /\ gen' = [gen EXCEPT !.w[i].pc = "lock"]

\* lines 27-36
LoopAcquire(i) ==
    /\ UNCHANGED <<aiVars, runVars, ens, fn>>
    /\ gen.w[i].pc = "lock"
    /\ gen.lock = NoWorker
    /\ gen' = Rebase(AcquireOn(gen, i))

\* lines 36-39, the sleep ending on time
LoopWake(i) ==
    /\ UNCHANGED <<aiVars, runVars, ens, fn>>
    /\ gen.w[i].pc = "sleeping"
    /\ gen' = Rebase(WakeOn(gen, i, 0))

\* line 42 and the end of the with block
LoopRecord(i) ==
    /\ UNCHANGED <<aiVars, runVars, ens, fn>>
    /\ gen.w[i].pc = "record"
    /\ gen' = Rebase(RecordOn(gen, i))

\* lines 58-75 for any worker: the provider call fails with 429 and the
\* worker goes to sleep at line 71, or it ends in any other way and
\* _ask_cohere returns
LoopChat(i, throttled) ==
    /\ UNCHANGED <<aiVars, runVars, ens, fn>>
    /\ gen.w[i].pc = "chat"
    /\ gen' = [gen EXCEPT !.w[i].pc = IF throttled THEN "backoff" ELSE "idle"]

\* lines 71-73 and back to line 56: the backoff sleep ends
LoopRetry(i) ==
    /\ UNCHANGED <<aiVars, runVars, ens, fn>>
    /\ gen.w[i].pc = "backoff"
    /\ gen' = [gen EXCEPT !.w[i].pc = "lock"]

NextLoop ==
    \/ LoopTick
    \/ \E i \in Workers : LoopCall(i)
    \/ \E i \in Workers : LoopAcquire(i)
    \/ \E i \in Workers : LoopWake(i)
    \/ \E i \in Workers : LoopRecord(i)
    \/ \E i \in Workers, throttled \in BOOLEAN : LoopChat(i, throttled)
    \/ \E i \in Workers : LoopRetry(i)

\* ------------------------------------- the output file of the generator
\* countries_to_collect of one continent (line 274)
NumCountries == 4
Countries == 1..NumCountries

\* the content of OUTPUT_FILE for the continent: a function from the
\* countries saved to their sources
EmptyFile == [c \in {} |-> <<>>]

\* what worker i collected for country c
SourcesOf(c, i) == <<c, i>>

\* data[continent][country] = sources (line 178)
WithCountry(data, c, sources) ==
    [k \in DOMAIN data \cup {c} |-> IF k = c THEN sources ELSE data[k]]

SaveWorker == [pc |-> "idle", country |-> 0, sources |-> <<>>, data |-> EmptyFile]

\* init_json_file(), then the tasks submitted at line 278; saved holds the
\* countries whose task returned None, with the sources it collected
InitSave ==
    gen = [file |-> EmptyFile, todo |-> Countries, saved |-> EmptyFile,
           failed |-> {}, w |-> [i \in Workers |-> SaveWorker]]

\* a free thread of the pool takes the next task
TakeTask(i, c) ==
    /\ UNCHANGED <<aiVars, runVars, ens, fn>>
    /\ gen.w[i].pc = "idle"
    /\ c \in gen.todo
    /\ gen' = [gen EXCEPT !.todo = @ \ {c},
                          !.w[i] = [SaveWorker EXCEPT !.pc = "collect", !.country = c]]

\* collect_country_sources up to line 223: it has sources to save, or it
\* returns a failure record
Collect(i, got) ==
    /\ UNCHANGED <<aiVars, runVars, ens, fn>>
    /\ gen.w[i].pc = "collect"
    /\ IF got
       THEN gen' = [gen EXCEPT !.w[i].pc = "load",
                               !.w[i].sources = SourcesOf(gen.w[i].country, i)]
       ELSE gen' = [gen EXCEPT !.w[i] = SaveWorker,
                               !.failed = @ \cup {gen.w[i].country}]

\* append_osint_data, lines 170-177: the lock is one made for this call, so
\* it is free; the file is read, and a country already in it is not saved
LoadFile(i) ==
    /\ UNCHANGED <<aiVars, runVars, ens, fn>>
    /\ gen.w[i].pc = "load"
    /\ LET me == gen.w[i] IN
       IF me.country \in DOMAIN gen.file
       THEN gen' = [gen EXCEPT !.w[i] = SaveWorker,
                               !.saved = WithCountry(@, me.country, me.sources)]
       ELSE gen' = [gen EXCEPT !.w[i].pc = "dump", !.w[i].data = gen.file]

\* append_osint_data, lines 178-182, and the return of line 225
DumpFile(i) ==
    /\ UNCHANGED <<aiVars, runVars, ens, fn>>
    /\ gen.w[i].pc = "dump"
    /\ LET me == gen.w[i] IN
       gen' = [gen EXCEPT !.file = WithCountry(me.data, me.country, me.sources),
                          !.w[i] = SaveWorker,
                          !.saved = WithCountry(@, me.country, me.sources)]

NextSave ==
    \/ \E i \in Workers, c \in Countries : TakeTask(i, c)
    \/ \E i \in Workers, got \in BOOLEAN : Collect(i, got)
    \/ \E i \in Workers : LoadFile(i)
    \/ \E i \in Workers : DumpFile(i)

\* ----------------------------------- aggregation and report on their own
\* result records an analyze function may hand over: fields absent, None,
\* scalar or list, values repeated within a field and across fields
SampleResults ==
    { [links |-> List(<<"a", "b", "a">>), images |-> List(<<"a">>),
       text |-> Str(<<"foo">>), error |-> None],
      [links |-> List(<<"a", "b", "a">>), images |-> List(<<"a">>),
       text |-> Str(<<"secret">>), error |-> Str(<<"boom">>)],
      [links |-> List(<<"c", "b">>), texts |-> List(<<"t1">>),
       locations |-> List(<<"{place}">>), text |-> Str(<<>>), error |-> Str(<<"boom">>)],
      [links |-> Str(<<"a">>), audio |-> None,
       text |-> List(<<"x", "y">>), error |-> List(<<"e1">>)],
      [texts |-> List(<<"a", "b", "a", "c", "b">>)],
      [locations |-> List(<<"p1", "p1">>), audio |-> List(<<"s1", "a">>),
       images |-> List(<<"i1">>), text |-> Str(<<"foo">>)],
      SyntheticEnvelope("m", ModuleError).result }

SampleEnvelopes ==
    { [result |-> r, confidence |-> 0,
       details |-> [provider |-> None, error |-> None], source |-> "m"] : r \in SampleResults }

MaxEnvelopes == 2

SampleRuns ==
    UNION { [1..n -> SampleEnvelopes] : n \in 0..MaxEnvelopes }

\* the state of a run whose module phase left the envelopes rs
InitReport ==
    /\ InitAI
    /\ InitEns
    /\ InitGen
    /\ InitFn
    /\ rpc = "aggregate"
    /\ results \in SampleRuns
    /\ nlocs = 0
    /\ li = 1
    /\ satellite_results = <<>>
    /\ mi = Total + 1
    /\ provider_results = <<>>
    /\ aggregated = Aggregate(<<>>)
    /\ report = NoReport
    /\ events = <<>>
    /\ raisedBy = "none"

Reaggregation == [e |-> "aggregate", k |-> "again", i |-> 0]

\* lines 179-195 executed once more on the same envelopes
AggregateAgain ==
    /\ UNCHANGED <<aiVars, ens, gen, fn>>
    /\ rpc = "report"
    /\ ~Occurs(Reaggregation)
    /\ aggregated' = AggregateFrom(aggregated, results)
    /\ events' = events \o <<Reaggregation>>
    /\ UNCHANGED <<rpc, nlocs, li, satellite_results, mi, results, provider_results,
                   report, raisedBy>>

NextReport ==
    \/ AggregateStep
    \/ AggregateAgain
    \/ \E sink \in SinkOutcomes : ReportStep(sink)

\* ------------------------------------------------------ specifications
\* the state after construction: a fresh store, no run started
Init == InitAI /\ InitRun /\ InitEns /\ InitGen /\ InitFn

SpecStore == Init /\ [][NextStore]_vars

SpecAI == Init /\ [][NextAI]_vars

SpecRun == Init /\ [][NextRun]_vars

SpecReport == InitReport /\ [][NextReport]_vars

SpecEnsemble == Init /\ [][NextEnsemble]_vars

SpecEnsembleStore == Init /\ [][NextEnsembleStore]_vars

\* a call normalize_ai_output(raw) about to be made
InitNormalize ==
    /\ InitAI /\ InitRun /\ InitEns /\ InitGen
    /\ \E raw \in RawOutputs : fn = [NoCall EXCEPT !.op = "pending", !.input = raw]

SpecNormalize == InitNormalize /\ [][NextNormalize]_vars

SpecAskCohere == Init /\ [][NextAskCohere]_vars

SpecRecord == Init /\ [][NextRecord]_vars

SpecRecovery == Init /\ [][NextRecovery]_vars

\* no call of research.analyze made yet
InitResearch ==
    /\ InitAI /\ InitRun /\ InitEns /\ InitGen
    /\ fn = NoResearch

SpecResearch == InitResearch /\ [][NextResearch]_vars

\* no call of footprint.analyze made yet
InitFootprint ==
    /\ InitAI /\ InitRun /\ InitEns /\ InitGen
    /\ fn = NoFootprint

SpecFootprint == InitFootprint /\ [][NextFootprint]_vars

\* a call of summarize_osint_footprint about to query its first provider
InitSummarize ==
    /\ InitAI /\ InitRun /\ InitEns /\ InitGen
    /\ fn = NoSummarize

SpecSummarize == InitSummarize /\ [][NextSummarize]_vars

\* a call of ask_any_llm about to query its first provider
InitAskAny ==
    /\ InitAI /\ InitRun /\ InitEns /\ InitGen
    /\ fn = NoAsk

SpecAskAny == InitAskAny /\ [][NextAskAny]_vars

\* the workers of one continent about to start on an empty output file
InitSaveRun ==
    /\ InitAI /\ InitRun /\ InitEns /\ InitFn
    /\ InitSave

SpecSave == InitSaveRun /\ [][NextSave]_vars

SpecIO == Init /\ [][NextIO]_vars

SpecGate == Init /\ [][NextGate]_vars

SpecAsk == Init /\ [][NextAsk]_vars

\* The workers going through the gate for ever. A thread that holds the lock
\* is running (lines 29-42 block nowhere but in the sleep of line 36, which
\* ends), and a fair scheduler does not pass over a thread for ever that is
\* waiting for a lock which is free again and again. Nothing obliges a worker
\* to call, a provider call to end or a backoff sleep to end.
SpecLoop ==
    /\ Init
    /\ [][NextLoop]_vars
    /\ \A i \in Workers :
          /\ SF_vars(LoopAcquire(i))
          /\ WF_vars(LoopWake(i))
          /\ WF_vars(LoopRecord(i))

\* ================================================= availability store
\* C1: once the provider is marked unavailable with limit_type "hard", it
\* stays so through any elapsed time and any interleaving of
\* is_ai_available and (in-flight) analyze calls, until an explicit reset
\* (reset_ai_availability, reset_ai_provider, reset_all_ai_providers).
HardMarked == ~rec.available /\ rec.limit_type = "hard"

ExplicitReset ==
    \/ ResetAiAvailability
    \/ ResetAllAiProviders
    \/ \E provider \in ProviderNames : ResetAiProvider(provider)

C1_HardStaysUntilReset ==
    [][(HardMarked /\ ~ExplicitReset) => HardMarked']_vars

\* C2: is_ai_available on an unavailable record returns true, and rewrites
\* the record to available with last_limit and limit_type cleared, exactly
\* when the limit is "minute" and older than 60 s or "daily" and older than
\* 24 h; otherwise it returns false and leaves the record unchanged. The
\* returned value always equals the stored available flag after the call.
Expired(r, t) ==
    \/ r.limit_type = "minute" /\ t - r.last_limit > MinuteWindow
    \/ r.limit_type = "daily" /\ t - r.last_limit > DailyWindow

C2_AutoRecovery ==
    [][IsAiAvailable =>
        /\ ret'.val = rec'.available
        /\ ~rec.available =>
             /\ ret'.val = Expired(rec, now)
             /\ Expired(rec, now) =>
                  rec' = [available |-> TRUE, last_limit |-> NoTime,
                          limit_type |-> "none", used |-> rec.used]
             /\ ~Expired(rec, now) => rec' = rec
        /\ rec.available => rec' = rec]_vars

\* a direct is_ai_available call has just auto-recovered the provider
C2_Witness ==
    /\ ret.val
    /\ ret.recovered
    /\ rec.available
    /\ rec.last_limit = NoTime
    /\ rec.limit_type = "none"

\* ============================================================ AI router
FailsFast(sink) ==
    /\ pc' = pc
    /\ rec' = rec
    /\ sink = "ok" =>
         /\ lastEnv'.result.error = Str(<<"Provider", "unavailable.">>)
         /\ lastEnv'.confidence = 0

\* C3: when the store says the provider is unavailable (and no
\* auto-recovery applies), analyze fails fast: no provider call is issued,
\* the envelope carries error "Provider unavailable." and confidence 0, and
\* the record is left unchanged; consequently, after one rate-limited call
\* every analyze call made within the next 60 s fails fast in this way.
C3_FailFast ==
    [][\A p \in Calls, sink \in SinkOutcomes :
        AnalyzeStartWith(p, sink) =>
          /\ (~rec.available /\ ~Expired(rec, now)) => FailsFast(sink)
          /\ (rlAt # NoTime /\ now - rlAt <= MinuteWindow) => FailsFast(sink)]_vars

\* C4: whenever the provider is available and the provider call returns a
\* non-empty answer that is not an error sentinel, analyze returns the
\* answer as result.text with no error and confidence 0.8, leaves the
\* provider marked available and increments the usage counter by one.
IsSentinel(answer) ==
    /\ Len(answer) >= 4
    /\ Lower(SubSeq(answer, 1, 4)) = <<"error", "during", "cohere", "completion:">>

C4_SuccessRecorded ==
    [][\A p \in Calls, o \in ChatOutcomes :
        (pc[p] = "inflight" /\ SyncCall(o) # <<>> /\ ~IsSentinel(SyncCall(o))
           /\ AnalyzeFinishWith(p, o, "ok")) =>
          /\ lastEnv'.result.text = Str(SyncCall(o))
          /\ lastEnv'.result.error = None
          /\ lastEnv'.confidence = 8
          /\ rec'.available
          /\ rec'.last_limit = NoTime
          /\ rec'.limit_type = "none"
          /\ rec'.used = rec.used + 1]_vars

\* C5: when the provider call made by analyze fails, a rate-limit failure
\* (429 / "rate limit") marks the provider unavailable with limit_type
\* "minute", any other failure with "hard"; last_limit is the current
\* time, the usage counter is not incremented, the envelope carries the
\* error and confidence is 0.
RateLimitSignals == { <<"429">>, <<"Rate", "Limit", "exceeded">> }

C5_FailureClassified ==
    [][\A p \in Calls : (pc[p] = "inflight" /\ pc'[p] = "idle") =>
       \A o \in ChatOutcomes, sink \in SinkOutcomes :
        (o.kind = "raise" /\ AnalyzeFinishWith(p, o, sink)) =>
          /\ ~rec'.available
          /\ rec'.limit_type = (IF o.v \in RateLimitSignals THEN "minute" ELSE "hard")
          /\ rec'.last_limit = now
          /\ rec'.used = rec.used
          /\ sink = "ok" =>
               /\ lastEnv'.result.error = Str(SentinelPrefix \o o.v)
               /\ lastEnv'.confidence = 0]_vars

\* an analyze call has just returned the error envelope of a rate-limited
\* provider call and the store carries the minute mark it wrote
C5_Witness ==
    /\ ~rec.available
    /\ rec.limit_type = "minute"
    /\ rec.last_limit = now
    /\ lastEnv.result.error = Str(SentinelPrefix \o <<"Rate", "Limit", "exceeded">>)
    /\ lastEnv.confidence = 0


\* ======================================================= fan-out engine
\* every occurrence of b has an occurrence of a before it
Precedes(a, b) ==
    \A k \in DOMAIN events : events[k] = b => \E j \in 1..(k - 1) : events[j] = a

ModuleThrew(i) == Occurs(Threw(i))

\* C6: handle_query_with_status raises to its caller only if create_report
\* raises; a module whose analyze raised never aborts the run, and once the
\* run has ended after such a module, every registered module was invoked.
C6_OnlyReportRaises ==
    /\ rpc = "raised" => raisedBy = "create_report"
    /\ (rpc \in {"returned", "raised"} /\ \E i \in 1..Total : ModuleThrew(i))
          => \A i \in 1..Total : Occurs(Invoke(i))

ResultFields == DOMAIN EmptyOutput

\* the envelope the data model prescribes for a failure e: every field
\* present and empty, except error
IsErrorEnvelope(env, e) ==
    /\ DOMAIN env.result = ResultFields
    /\ env.result.text = Str(<<>>)
    /\ \A k \in ListKeys : env.result[k] = List(<<>>)
    /\ env.result.error = Str(e)

\* C7: when a module's analyze raises, the engine appends one synthetic
\* envelope with every result field of the data model present and empty
\* except error, which holds the failure, and one provider-result record
\* with status "error"; when it returns, the engine appends the module's
\* envelope and one record with status "success".
C7_ModuleOutcomeRecorded ==
    [][ /\ (\E sink \in SinkOutcomes : ModuleRaises(sink)) =>
             /\ Len(results') = Len(results) + 1
             /\ SubSeq(results', 1, Len(results)) = results
             /\ IsErrorEnvelope(results'[Len(results')], ModuleError)
             /\ provider_results' =
                  Append(provider_results,
                         [module |-> MODULES[mi], error |-> Str(ModuleError), status |-> "error"])
        /\ \A res \in ModuleEnvelopes(mi) :
             (\E sink1, sink2 \in SinkOutcomes : ModuleReturns(res, sink1, sink2)) =>
                /\ results' = Append(results, res)
                /\ provider_results' =
                     Append(provider_results,
                            [module |-> MODULES[mi], result |-> res, status |-> "success"])
      ]_vars

WellFormed(r) ==
    /\ DOMAIN r = ResultFields
    /\ r.text.t = "str"
    /\ \A k \in ListKeys : r[k].t = "list"

\* C8: every envelope that reaches aggregation has a result record with all
\* eight fields present, text a string and every sequence field a sequence.
C8_EnvelopeShape ==
    \A j \in DOMAIN results : WellFormed(results[j].result)

\* C9: for a run that returns, raw_results holds the satellite envelopes and
\* then exactly one envelope per registered module in registry order, and
\* provider_results holds exactly one record per module in the same order.
C9_OnePerModule ==
    rpc = "returned" =>
       LET ns == Len(satellite_results) IN
       /\ Len(results) = ns + Total
       /\ SubSeq(results, 1, ns) = satellite_results
       /\ \A i \in 1..Total : results[ns + i].source \in {ModuleSource[i], MODULES[i]}
       /\ Len(provider_results) = Total
       /\ \A i \in 1..Total : provider_results[i].module = MODULES[i]

Is(ev, e, k, i) == ev.i = i /\ ev.e = e /\ ev.k = k
IsEnd(ev, i) == ev.i = i /\ ev.e = "finished"

\* what the narration requires of the k-th event of a trace evs
InOrder(evs, k) ==
    /\ evs[k].e = "invoke" =>
          /\ \A j \in 1..(k - 1) : evs[j].e = "invoke" =>
                \E m \in (j + 1)..(k - 1) : IsEnd(evs[m], evs[j].i)
          /\ \E j \in 1..(k - 1) : Is(evs[j], "status", "running", evs[k].i)
    /\ (Is(evs[k], "status", "running", evs[k].i) /\ evs[k].i > 1) =>
          /\ \E j \in 1..(k - 1) : IsEnd(evs[j], evs[k].i - 1)
          /\ \E j \in 1..(k - 1) : Is(evs[j], "log", "provider_decision", evs[k].i - 1)
    /\ evs[k].e = "aggregate" => \E j \in 1..(k - 1) : IsEnd(evs[j], Total)
    /\ evs[k].e = "status" =>
          \A j \in 1..(k - 1) : ~Is(evs[j], "status", "complete", 0)

\* C10: the module phase is sequential and narrated in order: no module is
\* invoked while another is in flight; the "(i/total) running" status comes
\* before module i is invoked and after module i-1 ended; the provider
\* decision of module i is logged before module i+1 starts; aggregation
\* starts after the last module ended; and in a run that returns, the last
\* status push is the one with the rendered report, and the terminal
\* analytics event follows it. Stated for every event a step adds to the
\* trace of the run.
C10_SequentialNarration ==
    [][ /\ \A k \in (Len(events) + 1)..Len(events') : InOrder(events', k)
        /\ rpc' = "returned" =>
              /\ report' = CreateReport(results', aggregated')
              /\ \E j \in DOMAIN events' : Is(events'[j], "status", "complete", 0)
              /\ events'[Len(events')] = Log("orchestration_complete", 0)
      ]_vars

\* a run with locations in which a module raised and which returned
C10_Witness ==
    /\ rpc = "returned"
    /\ nlocs > 0
    /\ \E i \in 1..Total : ModuleThrew(i)
    /\ Len(report.lines) > 1

SatInvocations == SelectSeq(events, LAMBDA ev : ev.e = "sat_invoke")
SatFailures == SelectSeq(events, LAMBDA ev : ev.e = "log" /\ ev.k = "satellite_error")
LocationPhaseOver == rpc \notin {"start", "locate", "satellite"}

Failed(env) ==
    \/ "error" \in DOMAIN env.result /\ Truthy(env.result.error)
    \/ Truthy(env.details.error)

ModuleEnvelopesOf(rs) == SelectSeq(rs, LAMBDA env : env.source # "satellite_verify")

EveryModuleFailed ==
    \A j \in DOMAIN ModuleEnvelopesOf(results) : Failed(ModuleEnvelopesOf(results)[j])

\* C12: every run hands a report to the user, whose trailing line counts K
\* items from N modules, N being the number of registered modules, and K
\* being 0 when every module failed.
C12_AlwaysReport ==
    /\ rpc # "raised"
    /\ rpc \in {"final", "returned"} =>
          /\ report.modules = Total
          /\ EveryModuleFailed => report.items = 0

\* ================================================ aggregation and report
AggFields == {"links", "images", "texts", "locations", "audio", "text", "error"}

\* what one result record gives to field f: the elements of a sequence, a
\* truthy scalar as one entry, nothing otherwise
Entries(r, f) ==
    IF f \notin DOMAIN r THEN <<>>
    ELSE CASE r[f].t = "list" -> [j \in 1..Len(r[f].v) |-> Elem(r[f].v[j])]
           [] r[f].t = "str" /\ r[f].v # <<>> -> <<r[f]>>
           [] OTHER -> <<>>

\* the entries of the first n envelopes of rs for field f, in order
RECURSIVE Merged(_, _, _)
Merged(rs, f, n) ==
    IF n = 0 THEN <<>> ELSE Merged(rs, f, n - 1) \o Entries(rs[n].result, f)

\* the steps of the aggregation block and of create_report
Aggregated == rpc = "aggregate" /\ rpc' = "report"
AggregatedAgain == rpc = "report" /\ rpc' = "report" /\ events' # events
ReportBuilt == rpc = "report" /\ rpc' \in {"final", "raised"}

NoRepeat(l) == \A j, m \in DOMAIN l : j # m => l[j] # l[m]

\* C15: in the aggregated mapping a run returns, no value occurs twice
\* within a field.
C15_AggregatedDeduplicated ==
    rpc = "returned" => \A f \in DOMAIN aggregated : NoRepeat(aggregated[f])

\* l without the occurrences that follow a first one
FirstPositions(l) == {j \in DOMAIN l : \A m \in 1..(j - 1) : l[m] # l[j]}
FirstOccurrences(l) ==
    [n \in 1..Cardinality(FirstPositions(l)) |->
        l[CHOOSE j \in FirstPositions(l) :
             Cardinality({m \in FirstPositions(l) : m < j}) = n - 1]]

RenderedItems(rep, c) ==
    LET ls == SelectSeq(rep.lines, LAMBDA ln : ln.kind = "item" /\ ln.cat = c)
    IN [j \in DOMAIN ls |-> ls[j].v]

Categories == {"links", "images", "texts", "locations", "audio"}

ReportReturned == rpc = "report" /\ rpc' = "final"

\* C16: the items create_report renders for a category are the category's
\* aggregated list without the occurrences after the first, in first
\* occurrence order; each category is deduplicated on its own.
C16_DedupPerCategory ==
    [][ ReportReturned =>
          \A c \in Categories :
             RenderedItems(report', c) = FirstOccurrences(aggregated[c])
      ]_vars

\* the value "a" repeated in one category and present in two categories
C16_Witness ==
    /\ rpc = "final"
    /\ aggregated.texts = [j \in 1..5 |-> Str(<<<<"a", "b", "a", "c", "b">>[j]>>)]
    /\ aggregated.links = <<Str(<<"a">>), Str(<<"b">>), Str(<<"a">>)>>
    /\ RenderedItems(report, "texts") = <<Str(<<"a">>), Str(<<"b">>), Str(<<"c">>)>>
    /\ RenderedItems(report, "links") = <<Str(<<"a">>), Str(<<"b">>)>>
    /\ RenderedItems(report, "images") = <<Str(<<"a">>)>>

RenderOrder == <<"texts", "links", "images", "locations", "audio">>
Rank(c) == CHOOSE j \in DOMAIN RenderOrder : RenderOrder[j] = c

\* C17: the sections come in the order Texts, Links, Images, Locations,
\* Audio, a section being there exactly when its deduplicated list is not
\* empty, each item under its own header, and one summary line ends the
\* report, whose item count is the number of items listed.
C17_SectionOrder ==
    [][ ReportReturned =>
          LET ls == report'.lines
              n == Len(ls)
              headers == SelectSeq(ls, LAMBDA ln : ln.kind = "header")
          IN /\ n >= 1
             /\ ls[n].kind = "summary"
             /\ \A j \in 1..(n - 1) : ls[j].kind \in {"header", "item"}
             /\ \A j, m \in DOMAIN headers : j < m => Rank(headers[j].cat) < Rank(headers[m].cat)
             /\ \A c \in Categories :
                   (\E j \in DOMAIN headers : headers[j].cat = c)
                      <=> FirstOccurrences(aggregated[c]) # <<>>
             /\ \A j \in 1..(n - 1) : ls[j].kind = "item" =>
                   /\ j > 1
                   /\ ls[j - 1].kind \in {"header", "item"}
                   /\ ls[j - 1].cat = ls[j].cat
             /\ report'.items =
                   Cardinality({j \in 1..n : ls[j].kind = "item"})
      ]_vars

\* a report with several sections, one category being empty
C17_Witness ==
    /\ rpc = "final"
    /\ Len(SelectSeq(report.lines, LAMBDA ln : ln.kind = "header")) >= 3
    /\ aggregated.texts = <<>>
    /\ report.items >= 4

\* C18: create_report never raises: whatever the items of the categories
\* are and whatever the analytics sink does, a report is returned.
C18_ReportNeverRaises ==
    [][ rpc = "report" => rpc' # "raised" ]_vars

\* ============================================================== ensemble
\* a provider call succeeded: an envelope without error and with a text
Succeeded(c) ==
    /\ c.outcome.kind = "env"
    /\ ~Truthy(c.outcome.env.result.error)
    /\ Truthy(c.outcome.env.result.text)

Reason(c) ==
    IF c.outcome.kind = "raise" THEN c.outcome.e ELSE c.outcome.env.result.error.v

Successes == SelectSeq(ens.calls, Succeeded)
Failures == SelectSeq(ens.calls, LAMBDA c : ~Succeeded(c))

\* the texts of the first n successful calls, separated by one space
RECURSIVE TextsUpTo(_)
TextsUpTo(n) ==
    IF n = 0 THEN <<>> ELSE TextsUpTo(n - 1) \o Successes[n].outcome.env.result.text.v

\* "<provider>: <reason>" of the first n failed calls, separated by "; "
RECURSIVE ReasonsUpTo(_)
ReasonsUpTo(n) ==
    IF n = 0 THEN <<>>
    ELSE LET before == ReasonsUpTo(n - 1)
             entry == <<Failures[n].provider \o ":">> \o Reason(Failures[n])
         IN IF n = 1 THEN entry
            ELSE SubSeq(before, 1, Len(before) - 1)
                 \o <<before[Len(before)] \o ";">> \o entry

AvailablePerRule ==
    \/ rec.available
    \/ rec.last_limit # NoTime /\ Expired(rec, now)

EnsembleBegins == ens.pc = "idle" /\ ens'.pc # "idle"

C22_QueriesAvailable ==
    [][EnsembleBegins =>
         ens'.issued = IF AvailablePerRule THEN <<"cohere">> ELSE <<>>]_vars

\* ================================================ bulk source generator
RECURSIVE Pow2(_)
Pow2(n) == IF n = 0 THEN 1 ELSE 2 * Pow2(n - 1)

RECURSIVE SumSeq(_)
SumSeq(q) == IF q = <<>> THEN 0 ELSE Head(q) + SumSeq(Tail(q))

asker == gen.w[Asker]

ProviderFailed ==
    /\ fn.op = "asked"
    /\ fn.chat.kind = "raise"
    /\ ~IsRateLimit(fn.chat.v)

CanonicalKeys == {"text", "images", "audio", "video", "links", "maps", "files", "error"}
MediaKeys == CanonicalKeys \ {"text", "error"}

Has(d, k, type) == k \in DOMAIN d /\ d[k].t = type

C25_CanonicalRecord ==
    fn.op = "normalized" =>
       LET raw == fn.input
           out == fn.norm
       IN /\ DOMAIN out = CanonicalKeys
          /\ out.text.t = "str"
          /\ \A k \in MediaKeys : out[k].t = "list"
          /\ out.error.t \in {"none", "str"}
          /\ raw.t = "str" =>
                /\ \A k \in MediaKeys : out[k].v = <<>>
                /\ IF IsSentinel(raw.v)
                   THEN out.error = raw /\ out.text.v = <<>>
                   ELSE out.text = raw /\ out.error = None
          /\ raw.t = "dict" =>
                /\ out.text = IF Has(raw.v, "text", "str") THEN raw.v["text"] ELSE Str(<<>>)
                /\ \A k \in MediaKeys :
                      out[k] = IF Has(raw.v, k, "list") THEN raw.v[k] ELSE List(<<>>)
                /\ IF "error" \in DOMAIN raw.v /\ raw.v["error"] \notin {None, Str(<<>>)}
                   THEN out.error.t = "str" /\ out.error.v # <<>>
                   ELSE out.error = None
                /\ (Has(raw.v, "error", "str") /\ raw.v["error"].v # <<>>) =>
                      out.error = raw.v["error"]
          /\ raw.t \notin {"str", "dict"} =>
                /\ out.error = Str(<<"AI", "output", "was", "not", "recognized">>)
                /\ out.text.v = <<>>
                /\ \A k \in MediaKeys : out[k].v = <<>>

\* a dict with an ill-typed text, a well-typed images list and an unknown
\* key has been normalized
C25_Witness ==
    /\ fn.op = "normalized"
    /\ fn.input.t = "dict"
    /\ DOMAIN fn.input.v = {"text", "images", "error", "extra"}
    /\ fn.input.v["text"].t = "list"
    /\ fn.input.v["images"].t = "list"
    /\ fn.input.v["error"] = None
    /\ fn.norm = [EmptyOutput EXCEPT !.images = List(<<"u1">>)]

\* ======================================================= fan-out engine
\* C26: in every envelope a module's analyze returned, the confidence lies
\* in [0,1] (0..10 tenths) and is 0 whenever result.error is set.
C26_ConfidenceZeroOnError ==
    \A j \in DOMAIN results :
       /\ results[j].confidence \in 0..10
       /\ Truthy(results[j].result.error) => results[j].confidence = 0

\* ================================================ bulk source generator
\* the calls admitted in the 60 seconds that end at time t
AdmittedWithin(t) == {j \in DOMAIN gen.admitted : t - gen.admitted[j] < 600}

GateBounded ==
    /\ Cardinality(AdmittedWithin(gen.now)) <= 10
    /\ \A i \in Workers :
          gen.w[i].pc \in {"sleeping", "record"} => gen.lock = i

GateReleases ==
    \A i \in Workers :
       /\ (gen.w[i].pc = "lock" /\ gen'.w[i].pc = "sleeping") =>
             Cardinality(AdmittedWithin(gen.now)) >= 10
       /\ (gen.w[i].pc = "lock" /\ gen'.w[i].pc = "record") =>
             Cardinality(AdmittedWithin(gen.now)) < 10
       /\ gen.w[i].pc = "sleeping" =>
             /\ gen'.admitted = gen.admitted
             /\ gen'.w[i].pc # "sleeping" =>
                   gen'.now - gen.admitted[Len(gen.admitted) - 9] >= 600

\* C27: with MAX_WORKERS threads going through wait_for_rate_limit, no more
\* than 10 calls are admitted within any trailing 60 seconds; a caller that
\* finds the window full holds the gate, with nobody else admitted, until
\* the oldest call of the window is 60 seconds old.
C27_RateGate == []GateBounded /\ [][GateReleases]_vars

\* ten calls admitted within a minute, the eleventh once the first of them
\* had left the window, a second worker queueing at the gate meanwhile
C27_Witness ==
    /\ Len(gen.admitted) = 11
    /\ gen.admitted[10] - gen.admitted[1] < 600
    /\ gen.admitted[11] - gen.admitted[1] >= 600
    /\ \E i \in Workers : gen.w[i].pc = "lock"

\* ============================================================ AI router
\* the analyze call p ends in this step on its success branch
FinishesOk(p) ==
    /\ pc[p] = "inflight"
    /\ pc'[p] = "idle"
    /\ \E o \in ChatOutcomes :
          /\ SyncCall(o) # <<>>
          /\ ~IsSentinel(SyncCall(o))
          /\ ~Contains(Lower(SyncCall(o)), <<"error">>)
          /\ \E sink \in SinkOutcomes : AnalyzeFinishWith(p, o, sink)

\* C28: no update of the availability record is lost when analyze calls
\* interleave at their suspension points: a call that ends on its success
\* branch adds exactly one to the usage counter as it stands at that moment,
\* whatever the other calls did in between, and nothing else but an explicit
\* reset changes the counter: not a failing call, a fail-fast call, a mark
\* or an auto-recovery.
C28_NoLostUpdate ==
    [][IF \E p \in Calls : FinishesOk(p)
       THEN rec'.used = rec.used + 1
       ELSE rec'.used = rec.used \/ ExplicitReset]_vars

\* two analyze calls are in flight at once after an earlier success, the
\* provider having been marked unavailable and recovered in between
C28_Witness ==
    /\ \A p \in Calls : pc[p] = "inflight"
    /\ rec.used = 1
    /\ now > 0

\* ======================================================= fan-out engine
\* C29: a logging or analytics sink that raises never fails the core path:
\* whatever log_provider_decision, log_conversation and log_analytics do at
\* their call sites, a returning module leaves its envelope and one success
\* record and the run goes on, a raising module leaves the run going, the
\* report is generated when create_report itself can, and the run returns.
C29_SinksSwallowed ==
    [][/\ \A i \in 1..Total : \A res \in ModuleEnvelopes(i), sink1, sink2 \in SinkOutcomes :
             ModuleReturns(res, sink1, sink2) =>
                /\ results' = Append(results, res)
                /\ provider_results' =
                      Append(provider_results, SuccessRecord(MODULES[mi], res))
                /\ rpc' = AfterModule(mi)
       /\ \A sink \in SinkOutcomes : ModuleRaises(sink) => rpc' = AfterModule(mi)
       /\ \A sink \in SinkOutcomes :
             (ReportStep(sink) /\ ~ReportRaises(aggregated)) =>
                /\ report' = CreateReport(results, aggregated)
                /\ rpc' = "final"
       /\ \A s1, s2 \in SinkOutcomes : FinalStep(s1, s2) => rpc' = "returned"]_vars

\* ============================================================ AI router
\* some file access of this analyze step raises
StartFailsOnStore(p) ==
    \E io157, io130, ioExc \in StoreOutcomes, sink \in SinkOutcomes :
       /\ AnalyzeStartIO(p, io157, io130, ioExc, sink)
       /\ \/ io157 = "fail"
          \/ IsAiAvailableOn(rec, now).ret /\ io130 = "fail"

FinishFailsOnStore(p) ==
    \E o \in ChatOutcomes : \E ioMark, ioInc, ioExc \in StoreOutcomes, sink \in SinkOutcomes :
       /\ AnalyzeFinishIO(p, o, ioMark, ioInc, ioExc, sink)
       /\ IF Usable(NormalizeAiOutput(Str(SyncCall(o))))
          THEN ioMark = "fail" \/ ioInc = "fail"
          ELSE ioExc = "fail"

\* C30: a failure to read or write the availability file at any point of
\* analyze reaches the caller as an exception: no envelope ever carries it as
\* its error, and the step in which it happens ends with analyze raising and
\* writes no unavailability mark.
C30_StoreFailureFatal ==
    /\ [](lastEnv.result.error # Str(IoError))
    /\ [][\A p \in Calls :
            (StartFailsOnStore(p) \/ FinishFailsOnStore(p)) =>
               /\ lastEnv' = Raised
               /\ rec' # rec => rec'.available]_vars

\* ============================================================ AI router
\* the provider call of o returns a text
ProviderAnswers(o) == SyncCall(o) # <<>> /\ ~IsSentinel(SyncCall(o))

\* C31: an explicit reset restores service. Whatever the record was, after
\* reset_ai_availability it is the initial record and is_ai_available returns
\* true on it, the analyze call that follows issues the provider call, and
\* when the provider answers that call returns an envelope without error.
C31_ResetRestores ==
    [][/\ ResetAiAvailability =>
             /\ rec' = FreshRecord
             /\ IsAiAvailableOn(rec', now').ret
       /\ \A p \in Calls, sink \in SinkOutcomes :
             RecoveryStartWith(p, sink) =>
                /\ rec' = FreshRecord
                /\ pc'[p] = "recovering"
       /\ \A p \in Calls, o \in ChatOutcomes :
             (ProviderAnswers(o) /\ RecoveryFinishWith(p, o, "ok")) =>
                /\ lastEnv' # Raised
                /\ lastEnv'.result.error = None]_vars

\* ================================================= availability store
RecordConsistent ==
    /\ rec.available <=> (rec.last_limit = NoTime /\ rec.limit_type = "none")
    /\ ~rec.available => (rec.last_limit \in 0..now /\ rec.limit_type \in LimitTypes)

AnalyzeStep == \E p \in Calls : AnalyzeStart(p) \/ AnalyzeFinish(p)

\* C32: in every state reached through the operations on the record, analyze
\* included, available is true exactly when last_limit and limit_type are both
\* none, and an unavailable record carries a timestamp and one of the limit
\* types minute, daily, hard; a step of analyze that changes the record never
\* leaves it with limit_type daily.
C32_RecordInvariant ==
    /\ []RecordConsistent
    /\ [][(rec' # rec /\ rec'.limit_type = "daily") => ~AnalyzeStep]_vars

\* analyze has marked a rate limit on a record that counts an earlier success
C32_Witness ==
    /\ ~rec.available
    /\ rec.limit_type = "minute"
    /\ rlAt = rec.last_limit
    /\ rec.used > 0

\* ================================================ aggregation and report
\* two aggregations agree on every field the report has a category for
SameReportInputs(a, b) ==
    \A j \in DOMAIN ReportCategories :
       /\ ReportCategories[j] \in DOMAIN a
       /\ ReportCategories[j] \in DOMAIN b
       /\ a[ReportCategories[j]] = b[ReportCategories[j]]

\* runs of as many envelopes as this one whose aggregation differs from this
\* run's in the text and error fields at most
Lookalikes ==
    {other \in SampleRuns :
        /\ Len(other) = Len(results)
        /\ SameReportInputs(Aggregate(other), aggregated)}

\* C33: the report depends only on the aggregated links, images, texts,
\* locations and audio and on the number of raw results: a run whose
\* aggregation differs only in the text and error fields gets the same
\* report, so what modules return in result.text and result.error never shows
\* in it.
C33_ReportIgnoresText ==
    [][(ReportBuilt /\ rpc' = "final") =>
          \A other \in Lookalikes : report' = CreateReport(other, Aggregate(other))]_vars

\* a report was built for a run that has a lookalike with other texts and
\* errors
C33_Witness ==
    /\ rpc = "final"
    /\ report.items > 0
    /\ \E other \in Lookalikes :
          /\ Aggregate(other)["text"] # aggregated["text"]
          /\ Aggregate(other)["error"] # aggregated["error"]

\* ====================================================== research.analyze
RECURSIVE Count(_, _)
Count(l, x) ==
    IF l = <<>> THEN 0
    ELSE (IF Head(l) = x THEN 1 ELSE 0) + Count(Tail(l), x)

\* C34: one call of research.analyze performs at most one web search and
\* makes its nested analyze call to the central AI router and to nothing
\* else, at most once; when it has returned after a web search that
\* succeeded, it has made exactly one such call.
C34_OneSearchOneRouterCall ==
    /\ Count(fn.calls, "duckduckgo_search") <= 1
    /\ \A j \in DOMAIN fn.calls :
          fn.calls[j] # "duckduckgo_search" => fn.calls[j] = ImportedAnalyze
    /\ Count(fn.calls, ImportedAnalyze) <= 1
    /\ (fn.out # NoEnvelope /\ fn.out.result.error # Str(SearchError)) =>
          Count(fn.calls, ImportedAnalyze) = 1

\* ===================================================== footprint.analyze
\* C35: footprint.analyze called with options that lack a valid type returns
\* the envelope with error "Invalid or missing type in options.", empty text
\* and confidence 0, having run no check and made no AI call; called with a
\* valid type, every call of its summary step goes to the central AI router.
C35_FootprintTypeAndSummary ==
    /\ (fn.out # NoEnvelope /\ TypeOf(fn.opts) \notin OSINT_TYPES) =>
          /\ fn.out.result.error = Str(InvalidType)
          /\ fn.out.result.text = Str(<<>>)
          /\ fn.out.confidence = 0
          /\ fn.calls = <<>>
    /\ TypeOf(fn.opts) \in OSINT_TYPES =>
          \A j \in DOMAIN fn.calls :
             fn.calls[j] # "_run_checks_parallel" => fn.calls[j] = ImportedAnalyze

\* ============================= summarize_osint_footprint and ask_any_llm
\* a provider's outcome is a summary one can use: a string that is not
\* empty and no placeholder
UsableSummary(o) ==
    /\ o.kind = "return"
    /\ o.v.t = "str"
    /\ o.v.v # <<>>
    /\ ~Contains(Lower(o.v.v), <<"placeholder">>)

\* the providers queried so far, in priority order, that gave a usable summary
UsableAsked == {j \in DOMAIN fn.asked : UsableSummary(fn.asked[j].o)}

GaveString(o) == o.kind = "return" /\ o.v.t = "str" /\ o.v.v # <<>>

\* C37: ask_any_llm tries Gemini, HuggingFace and Cohere in this order and
\* never raises: a provider that raises or returns an empty or non-string
\* value is skipped, no provider is called after one gave a non-empty string,
\* and the call returns that string, or the empty string when all three
\* failed.
C37_FirstStringWins ==
    /\ Len(fn.asked) <= Len(LlmOrder)
    /\ \A j \in DOMAIN fn.asked :
          /\ fn.asked[j].p = LlmOrder[j]
          /\ j < Len(fn.asked) => ~GaveString(fn.asked[j].o)
    /\ fn.pc = "returned" =>
          LET last == fn.asked[Len(fn.asked)].o IN
          IF GaveString(last) THEN fn.out = last.v
          ELSE Len(fn.asked) = Len(LlmOrder) /\ fn.out = Str(<<>>)
    /\ fn.pc = "loop" => Len(fn.asked) < Len(LlmOrder)

\* Gemini raised, HuggingFace returned a list, Cohere's string was returned
C37_Witness ==
    /\ fn.op = "ask_any_llm"
    /\ fn.pc = "returned"
    /\ Len(fn.asked) = 3
    /\ fn.asked[1].o = Throw
    /\ fn.asked[2].o = Ret(List(<<"huggingface">>))
    /\ fn.out = Str(<<"cohere", "summary">>)

\* ================================================ bulk source generator
AllWorkersDone ==
    /\ gen.todo = {}
    /\ \A i \in Workers : gen.w[i].pc = "idle"

\* C38: no save of the workers is lost. When all workers of a continent have
\* finished, every country whose collect_country_sources reported success is
\* in the output file with the sources collected for it, and no step removes
\* or overwrites a country the file already holds.
C38_NoLostSave ==
    /\ [](AllWorkersDone =>
            \A c \in DOMAIN gen.saved :
               c \in DOMAIN gen.file /\ gen.file[c] = gen.saved[c])
    /\ [][\A c \in DOMAIN gen.file :
             c \in DOMAIN gen'.file /\ gen'.file[c] = gen.file[c]]_vars

\* ======================================================= the rate gate
Blocked(i) == gen.w[i].pc = "lock"
Admitted(i) == gen.w[i].pc = "chat"
HoldsLock(i) == gen.w[i].pc \in {"sleeping", "record"}

====
